---- MODULE Spec2Model ----
(***************************************************************************)
(* Session lifecycle of nymeria: the in-memory rate limiter, the sync /    *)
(* activity / deactivate route handlers and the two tables they write.     *)
(*                                                                         *)
(* Time is the value Date.now() / new Date() returns, in milliseconds.     *)
(* A handler is cut at its awaits: everything between two awaits runs      *)
(* without interleaving (one event loop), every database statement is one  *)
(* atomic step of the store.                                               *)
(***************************************************************************)
EXTENDS Integers, FiniteSets, Sequences, Bags, TLC

VARIABLES
    now,        \* Date.now()
    store,      \* RateLimiter.store
    users,      \* rows of table users
    sessions,   \* rows of table user_sessions
    inflight,   \* the sync requests in flight: a bag of handler positions
    lastResp,   \* the response sent last
    lastCheck,  \* history: the last call to check and what it returned
    win,        \* history: the calls to check per key and window
    client      \* the browser: the NymeriaAuth singleton and the useAuth hook

serverVars == <<users, sessions, inflight, lastResp>>
vars == <<now, store, users, sessions, inflight, lastResp, lastCheck, win, client>>

---------------------------------------------------------------------------
(* Bounds of the model. *)
MaxTime == 4          \* the limiter's clock runs over 0..MaxTime
MaxLimit == 2         \* limits passed to check: 0..MaxLimit
MaxWindow == 2        \* windowMs passed to check: 1..MaxWindow
MaxCalls == 4         \* calls to check counted per key and window

MaxPlain == 1         \* Spec: sync requests between their two statements
MaxHandlers == 2      \* SpecGate: sync requests between two awaits
MaxSyncs == 2         \* SpecBoundary: sync requests of a client in a window
MaxOps == 2           \* SpecClient: callbacks and restores of a page
MaxOver == 1          \* SpecGate: requests per client and window beyond the limit
MaxLoads == 2         \* SpecLifecycle: pages loaded after the first
MaxMinted == 4        \* SpecLifecycle: session ids minted in one browser
MaxPad == 2           \* SpecSanitize: characters put before and after a string

Keys == {"ip1"}
Limits == 0..MaxLimit
Windows == 1..MaxWindow

Clients == {"ip1"}                   \* x-forwarded-for / x-real-ip / "unknown"
SessionIds == {"sess_1", "sess_2", "sess_3"}

---------------------------------------------------------------------------
(* Map<string, T> as a function on the keys that are present. *)
EmptyMap == [k \in {} |-> 0]

Has(m, k) == k \in DOMAIN m

Put(m, k, v) == [x \in (DOMAIN m) \cup {k} |-> IF x = k THEN v ELSE m[x]]

Remove(m, ks) == [x \in (DOMAIN m) \ ks |-> m[x]]

---------------------------------------------------------------------------
(* RateLimiter *)

RateLimitEntry(c, r) == [count |-> c, resetTime |-> r]

\* check with the denial test off by one (count > limit)
checkOffByOne(st, t, identifier, limit, windowMs) ==
    IF ~Has(st, identifier) \/ t > st[identifier].resetTime
    THEN [store |-> Put(st, identifier, RateLimitEntry(1, t + windowMs)),
          allowed |-> TRUE, remaining |-> limit - 1, resetTime |-> t + windowMs]
    ELSE IF st[identifier].count > limit
    THEN [store |-> st, allowed |-> FALSE, remaining |-> 0,
          resetTime |-> st[identifier].resetTime]
    ELSE LET e == RateLimitEntry(st[identifier].count + 1, st[identifier].resetTime)
         IN [store |-> Put(st, identifier, e), allowed |-> TRUE,
             remaining |-> limit - e.count, resetTime |-> e.resetTime]

\* check that keeps counting in an expired window instead of opening a new one
checkNoReset(st, t, identifier, limit, windowMs) ==
    IF ~Has(st, identifier)
    THEN [store |-> Put(st, identifier, RateLimitEntry(1, t + windowMs)),
          allowed |-> TRUE, remaining |-> limit - 1, resetTime |-> t + windowMs]
    ELSE IF st[identifier].count >= limit
    THEN [store |-> st, allowed |-> FALSE, remaining |-> 0,
          resetTime |-> st[identifier].resetTime]
    ELSE LET e == RateLimitEntry(st[identifier].count + 1, st[identifier].resetTime)
         IN [store |-> Put(st, identifier, e), allowed |-> TRUE,
             remaining |-> limit - e.count, resetTime |-> e.resetTime]

\* check that counts a denied call and extends its window
checkExtendsDenied(st, t, identifier, limit, windowMs) ==
    IF ~Has(st, identifier) \/ t > st[identifier].resetTime
    THEN [store |-> Put(st, identifier, RateLimitEntry(1, t + windowMs)),
          allowed |-> TRUE, remaining |-> limit - 1, resetTime |-> t + windowMs]
    ELSE IF st[identifier].count >= limit
    THEN [store |-> Put(st, identifier,
                        RateLimitEntry(st[identifier].count + 1, t + windowMs)),
          allowed |-> FALSE, remaining |-> 0,
          resetTime |-> st[identifier].resetTime]
    ELSE LET e == RateLimitEntry(st[identifier].count + 1, st[identifier].resetTime)
         IN [store |-> Put(st, identifier, e), allowed |-> TRUE,
             remaining |-> limit - e.count, resetTime |-> e.resetTime]

\* RateLimiter.check(identifier, limit, windowMs) at Date.now() = t on the
\* map st: the map it leaves and the object it returns.
check(st, t, identifier, limit, windowMs) ==
    IF ~Has(st, identifier) \/ t > st[identifier].resetTime
    THEN \* first request or window expired
         [store |-> Put(st, identifier, RateLimitEntry(1, t + windowMs)),
          allowed |-> TRUE, remaining |-> limit - 1, resetTime |-> t + windowMs]
    ELSE IF st[identifier].count >= limit
    THEN \* rate limit exceeded
         [store |-> st, allowed |-> FALSE, remaining |-> 0,
          resetTime |-> st[identifier].resetTime]
    ELSE \* increment count
         LET e == RateLimitEntry(st[identifier].count + 1, st[identifier].resetTime)
         IN [store |-> Put(st, identifier, e), allowed |-> TRUE,
             remaining |-> limit - e.count, resetTime |-> e.resetTime]

\* a cleanup that deletes an entry at the last instant of its window
cleanupEarly(st, t) == Remove(st, {k \in DOMAIN st : t >= st[k].resetTime})

\* RateLimiter.cleanup at Date.now() = t
cleanup(st, t) == Remove(st, {k \in DOMAIN st : t > st[k].resetTime})

\* RATE_LIMITS
RATE_LIMITS ==
    [AUTH_SYNC |-> [limit |-> 10, windowMs |-> 60 * 1000],
     AUTH_ACTIVITY |-> [limit |-> 30, windowMs |-> 60 * 1000],
     USER_API |-> [limit |-> 100, windowMs |-> 60 * 1000],
     GENERAL |-> [limit |-> 1000, windowMs |-> 60 * 1000]]

\* applyRateLimit(identifier, config) on the singleton's map
applyRateLimit(st, t, identifier, config) ==
    check(st, t, identifier, config.limit, config.windowMs)

---------------------------------------------------------------------------
(* Tables users and user_sessions. A row carries the columns the handlers   *)
(* read or write; display_name, avatar, description and banner are copied   *)
(* like handle and left out, updated_at follows every update.               *)

NULL == "NULL"

NoUser == [id |-> 0, did |-> "", handle |-> "", pds |-> NULL,
           lastSeenAt |-> 0, isActive |-> FALSE, createdAt |-> 0]

MaxOf(S) == CHOOSE x \in S : \A y \in S : y <= x

\* the primary key of a new users row: the insert supplies none, the store
\* assigns one that no row has
NewId(us) == IF us = {} THEN 1 ELSE MaxOf({u.id : u \in us}) + 1

\* an upsert that replaces the conflicting row by a new one (new id)
upsertUserReplace(us, data, t, dbOk) ==
    IF ~dbOk \/ data.pds = NULL
    THEN [ok |-> FALSE, users |-> us, user |-> NoUser]
    ELSE LET new == [id |-> NewId(us), did |-> data.did, handle |-> data.handle,
                     pds |-> data.pds, lastSeenAt |-> t, isActive |-> TRUE,
                     createdAt |-> t]
         IN [ok |-> TRUE, users |-> {u \in us : u.did # data.did} \cup {new},
             user |-> new]

\* an upsert whose conflict branch forgets to set handle
upsertUserKeepHandle(us, data, t, dbOk) ==
    IF ~dbOk \/ data.pds = NULL
    THEN [ok |-> FALSE, users |-> us, user |-> NoUser]
    ELSE IF \E u \in us : u.did = data.did
    THEN LET old == CHOOSE u \in us : u.did = data.did
             new == [old EXCEPT !.pds = data.pds, !.lastSeenAt = t]
         IN [ok |-> TRUE, users |-> (us \ {old}) \cup {new}, user |-> new]
    ELSE LET new == [id |-> NewId(us), did |-> data.did, handle |-> data.handle,
                     pds |-> data.pds, lastSeenAt |-> t, isActive |-> TRUE,
                     createdAt |-> t]
         IN [ok |-> TRUE, users |-> us \cup {new}, user |-> new]

\* db.insert(users).values(..).onConflictDoUpdate({target: users.did, set: ..})
\* .returning() at new Date() = t. dbOk: the store is reachable and takes the
\* statement. pds is NOT NULL: a statement carrying pds = null is rejected.
upsertUser(us, data, t, dbOk) ==
    IF ~dbOk \/ data.pds = NULL
    THEN [ok |-> FALSE, users |-> us, user |-> NoUser]
    ELSE IF \E u \in us : u.did = data.did
    THEN LET old == CHOOSE u \in us : u.did = data.did
             new == [old EXCEPT !.handle = data.handle, !.pds = data.pds,
                                !.lastSeenAt = t]
         IN [ok |-> TRUE, users |-> (us \ {old}) \cup {new}, user |-> new]
    ELSE LET new == [id |-> NewId(us), did |-> data.did, handle |-> data.handle,
                     pds |-> data.pds, lastSeenAt |-> t, isActive |-> TRUE,
                     createdAt |-> t]
         IN [ok |-> TRUE, users |-> us \cup {new}, user |-> new]

\* a session upsert whose conflict branch also takes over owner and device
upsertSessionReassign(us, ss, values, t, dbOk) ==
    IF ~dbOk
    THEN [ok |-> FALSE, sessions |-> ss]
    ELSE IF ~(\E u \in us : u.id = values.userId)
    THEN [ok |-> FALSE, sessions |-> ss]
    ELSE LET new == [userId |-> values.userId, sessionId |-> values.sessionId,
                     deviceId |-> values.deviceId, lastActiveAt |-> t,
                     expiresAt |-> NULL, metadata |-> values.metadata,
                     isActive |-> TRUE]
         IN [ok |-> TRUE,
             sessions |-> {s \in ss : s.sessionId # values.sessionId} \cup {new}]

\* db.insert(userSessions).values(..).onConflictDoUpdate({target:
\* userSessions.sessionId, set: {lastActiveAt, metadata}}) at new Date() = t.
\* user_id references users.id: an insert for a missing user is rejected.
upsertSession(us, ss, values, t, dbOk) ==
    IF ~dbOk
    THEN [ok |-> FALSE, sessions |-> ss]
    ELSE IF \E s \in ss : s.sessionId = values.sessionId
    THEN LET old == CHOOSE s \in ss : s.sessionId = values.sessionId
             new == [old EXCEPT !.lastActiveAt = t, !.metadata = values.metadata]
         IN [ok |-> TRUE, sessions |-> (ss \ {old}) \cup {new}]
    ELSE IF ~(\E u \in us : u.id = values.userId)
    THEN [ok |-> FALSE, sessions |-> ss]
    ELSE LET new == [userId |-> values.userId, sessionId |-> values.sessionId,
                     deviceId |-> values.deviceId, lastActiveAt |-> t,
                     expiresAt |-> NULL, metadata |-> values.metadata,
                     isActive |-> TRUE]
         IN [ok |-> TRUE, sessions |-> ss \cup {new}]

\* an activity update that inserts the row it does not find
updateActivityUpsert(ss, sessionId, lastActiveAt, dbOk) ==
    IF ~dbOk
    THEN [ok |-> FALSE, sessions |-> ss, found |-> FALSE]
    ELSE [ok |-> TRUE, found |-> TRUE,
          sessions |-> {s \in ss : s.sessionId # sessionId} \cup
              {[userId |-> 0, sessionId |-> sessionId, deviceId |-> NULL,
                lastActiveAt |-> lastActiveAt, expiresAt |-> NULL,
                metadata |-> "{}", isActive |-> TRUE]}]

\* db.update(userSessions).set({lastActiveAt}).where(eq(sessionId)).returning()
updateActivity(ss, sessionId, lastActiveAt, dbOk) ==
    IF ~dbOk
    THEN [ok |-> FALSE, sessions |-> ss, found |-> FALSE]
    ELSE [ok |-> TRUE,
          sessions |-> {IF s.sessionId = sessionId
                        THEN [s EXCEPT !.lastActiveAt = lastActiveAt] ELSE s
                        : s \in ss},
          found |-> \E s \in ss : s.sessionId = sessionId]

\* an update without its where clause
deactivateEveryRow(ss, sessionId, dbOk) ==
    IF ~dbOk
    THEN [ok |-> FALSE, sessions |-> ss, found |-> FALSE]
    ELSE [ok |-> TRUE,
          sessions |-> {[s EXCEPT !.isActive = FALSE] : s \in ss},
          found |-> \E s \in ss : s.sessionId = sessionId]

\* db.update(userSessions).set({isActive: false}).where(eq(sessionId)).returning()
deactivate(ss, sessionId, dbOk) ==
    IF ~dbOk
    THEN [ok |-> FALSE, sessions |-> ss, found |-> FALSE]
    ELSE [ok |-> TRUE,
          sessions |-> {IF s.sessionId = sessionId
                        THEN [s EXCEPT !.isActive = FALSE] ELSE s
                        : s \in ss},
          found |-> \E s \in ss : s.sessionId = sessionId]

\* a select that looks at the session id alone
findActiveSessionAnyRow(ss, sessionId, t) ==
    {s \in ss : s.sessionId = sessionId}

\* the middleware's select: eq(sessionId), eq(isActive, true),
\* gt(expiresAt, new Date()); a NULL expires_at compares to no date
findActiveSession(ss, sessionId, t) ==
    {s \in ss : /\ s.sessionId = sessionId
                /\ s.isActive
                /\ s.expiresAt # NULL
                /\ s.expiresAt > t}

---------------------------------------------------------------------------
(* Strings, character by character, for the tests the code makes on them. *)

LowerSeq == <<"a", "b", "c", "d", "e", "f", "g", "h", "i", "j", "k", "l", "m",
              "n", "o", "p", "q", "r", "s", "t", "u", "v", "w", "x", "y", "z">>

UpperSeq == <<"A", "B", "C", "D", "E", "F", "G", "H", "I", "J", "K", "L", "M",
              "N", "O", "P", "Q", "R", "S", "T", "U", "V", "W", "X", "Y", "Z">>

Lower == {LowerSeq[i] : i \in DOMAIN LowerSeq}

Upper == {UpperSeq[i] : i \in DOMAIN UpperSeq}

Digits == {"0", "1", "2", "3", "4", "5", "6", "7", "8", "9"}

\* the white space the strings of the model hold
Whitespace == {" ", "\t"}

\* of the control characters [\x00-\x08\x0B\x0C\x0E-\x1F\x7F], the one the
\* strings of the model hold
ControlChars == {"U+0000"}

LowerOf ==
    [c \in Upper |-> LowerSeq[CHOOSE i \in DOMAIN UpperSeq : UpperSeq[i] = c]]

\* the characters of every string a request of the model carries
Spell ==
    [v \in {"", "did:plc:a", "did:plc:b", "did:plc:A", "alice.test",
            "bob.test", "Alice.Test", "Alice Doe", "sess_1", "sess_2", "sess_3",
            "sess_4", "sess_5", "sess_6",
            "sess_", "evil_1", " sess_1", "dev_1", "dev_2", "dev_3", "dev_4",
            "tab_1"} |->
       CASE v = "" -> << >>
         [] v = "did:plc:a" -> <<"d", "i", "d", ":", "p", "l", "c", ":", "a">>
         [] v = "did:plc:b" -> <<"d", "i", "d", ":", "p", "l", "c", ":", "b">>
         [] v = "did:plc:A" -> <<"d", "i", "d", ":", "p", "l", "c", ":", "A">>
         [] v = "alice.test" -> <<"a", "l", "i", "c", "e", ".", "t", "e", "s", "t">>
         [] v = "bob.test" -> <<"b", "o", "b", ".", "t", "e", "s", "t">>
         [] v = "Alice.Test" -> <<"A", "l", "i", "c", "e", ".", "T", "e", "s", "t">>
         [] v = "Alice Doe" -> <<"A", "l", "i", "c", "e", " ", "D", "o", "e">>
         [] v = "sess_1" -> <<"s", "e", "s", "s", "_", "1">>
         [] v = "sess_2" -> <<"s", "e", "s", "s", "_", "2">>
         [] v = "sess_3" -> <<"s", "e", "s", "s", "_", "3">>
         [] v = "sess_4" -> <<"s", "e", "s", "s", "_", "4">>
         [] v = "sess_5" -> <<"s", "e", "s", "s", "_", "5">>
         [] v = "sess_6" -> <<"s", "e", "s", "s", "_", "6">>
         [] v = "sess_" -> <<"s", "e", "s", "s", "_">>
         [] v = "evil_1" -> <<"e", "v", "i", "l", "_", "1">>
         [] v = " sess_1" -> <<" ", "s", "e", "s", "s", "_", "1">>
         [] v = "dev_1" -> <<"d", "e", "v", "_", "1">>
         [] v = "dev_2" -> <<"d", "e", "v", "_", "2">>
         [] v = "dev_3" -> <<"d", "e", "v", "_", "3">>
         [] v = "dev_4" -> <<"d", "e", "v", "_", "4">>
         [] v = "tab_1" -> <<"t", "a", "b", "_", "1">>]

\* String.prototype.trim
trim(s) ==
    LET kept == {i \in 1..Len(s) : s[i] \notin Whitespace}
    IN IF kept = {} THEN << >>
       ELSE SubSeq(s, CHOOSE i \in kept : \A j \in kept : i <= j,
                      CHOOSE i \in kept : \A j \in kept : i >= j)

\* String.prototype.toLowerCase
toLowerCase(s) ==
    [i \in 1..Len(s) |-> IF s[i] \in DOMAIN LowerOf THEN LowerOf[s[i]] ELSE s[i]]

\* String.prototype.startsWith
startsWith(s, prefix) ==
    Len(s) >= Len(prefix) /\ SubSeq(s, 1, Len(prefix)) = prefix

\* /^prefix[class]+$/
MatchesPrefixed(s, prefix, class) ==
    /\ startsWith(s, prefix)
    /\ Len(s) > Len(prefix)
    /\ \A i \in Len(prefix) + 1 .. Len(s) : s[i] \in class

\* [a-zA-Z0-9._-], [a-zA-Z0-9.-] and [a-zA-Z0-9_-]
DidChars == Lower \cup Upper \cup Digits \cup {".", "_", "-"}

HandleChars == Lower \cup Upper \cup Digits \cup {".", "-"}

TokenChars == Lower \cup Upper \cup Digits \cup {"_", "-"}

\* /^did:(plc|web):[a-zA-Z0-9._-]+$/
DidRegex(s) ==
    \/ MatchesPrefixed(s, <<"d", "i", "d", ":", "p", "l", "c", ":">>, DidChars)
    \/ MatchesPrefixed(s, <<"d", "i", "d", ":", "w", "e", "b", ":">>, DidChars)

\* /^sess_[a-zA-Z0-9_-]+$/ and /^dev_[a-zA-Z0-9_-]+$/
SessRegex(s) == MatchesPrefixed(s, <<"s", "e", "s", "s", "_">>, TokenChars)

DevRegex(s) == MatchesPrefixed(s, <<"d", "e", "v", "_">>, TokenChars)

\* what a sanitizer returns: null, or the cleaned string
Rejected == [ok |-> FALSE, value |-> << >>]

Cleaned(s) == [ok |-> TRUE, value |-> s]

\* .replace(/[\x00-\x08\x0B\x0C\x0E-\x1F\x7F]/g, "")
removeControl(s) == SelectSeq(s, LAMBDA c : c \notin ControlChars)

\* .replace(/\s+/g, " "): every run of white space becomes one space
normalizeWhitespace(s) ==
    LET keep == {i \in 1..Len(s) :
                    s[i] \notin Whitespace \/ i = 1 \/ s[i - 1] \notin Whitespace}
        at(j) == CHOOSE i \in keep : Cardinality({k \in keep : k < i}) = j - 1
    IN [j \in 1..Cardinality(keep) |->
           IF s[at(j)] \in Whitespace THEN " " ELSE s[at(j)]]

\* String.prototype.substring(start, end)
substring(s, start, end) ==
    SubSeq(s, start + 1, IF end < Len(s) THEN end ELSE Len(s))

sanitizeText(input) ==
    Cleaned(substring(normalizeWhitespace(removeControl(trim(input))), 0, 10000))

\* new URL(input) for an absolute URL without port, credentials, query or
\* fragment: leading and trailing C0 control characters and spaces are
\* stripped, the scheme ends at the first colon and is lower-cased; for http
\* and https the slashes after the colon are skipped, the host runs to the
\* next slash, is lower-cased and must not be empty, and an empty path
\* becomes "/"
URL(input) ==
    LET kept == {i \in 1..Len(input) :
                    input[i] \notin Whitespace \cup ControlChars}
        s == IF kept = {} THEN << >>
             ELSE SubSeq(input, CHOOSE i \in kept : \A j \in kept : i <= j,
                                CHOOSE i \in kept : \A j \in kept : i >= j)
        colons == {i \in 1..Len(s) : s[i] = ":"}
        colon == CHOOSE i \in colons : \A j \in colons : i <= j
        scheme == toLowerCase(SubSeq(s, 1, colon - 1))
        after == SubSeq(s, colon + 1, Len(s))
        solid == {i \in 1..Len(after) : after[i] # "/"}
        start == CHOOSE i \in solid : \A j \in solid : i <= j
        authority == SubSeq(after, start, Len(after))
        slashes == {i \in 1..Len(authority) : authority[i] = "/"}
        stop == IF slashes = {} THEN Len(authority) + 1
                ELSE CHOOSE i \in slashes : \A j \in slashes : i <= j
        hostname == toLowerCase(SubSeq(authority, 1, stop - 1))
        pathname == IF slashes = {} THEN <<"/">>
                    ELSE SubSeq(authority, stop, Len(authority))
        special == scheme \in {<<"h", "t", "t", "p">>, <<"h", "t", "t", "p", "s">>}
        failed == [ok |-> FALSE, protocol |-> << >>, hostname |-> << >>,
                   href |-> << >>]
    IN IF colons = {} \/ colon = 1 THEN failed
       ELSE IF \E i \in 1..Len(scheme) : scheme[i] \notin Lower \cup Digits
       THEN failed
       ELSE IF ~special
       THEN [ok |-> TRUE, protocol |-> scheme \o <<":">>, hostname |-> << >>,
             href |-> scheme \o <<":">> \o after]
       ELSE IF solid = {}
               \/ \E i \in 1..Len(hostname) : hostname[i] \notin HandleChars
       THEN failed
       ELSE [ok |-> TRUE, protocol |-> scheme \o <<":">>, hostname |-> hostname,
             href |-> scheme \o <<":", "/", "/">> \o hostname \o pathname]

sanitizeUrl(input) ==
    LET url == URL(input)
    IN IF ~url.ok THEN Rejected
       ELSE IF url.protocol \notin {<<"h", "t", "t", "p", ":">>,
                                    <<"h", "t", "t", "p", "s", ":">>}
       THEN Rejected
       ELSE IF Len(url.hostname) = 0 \/ Len(url.hostname) > 253 THEN Rejected
       ELSE Cleaned(url.href)

sanitizeDid(input) ==
    LET cleaned == toLowerCase(trim(input))
    IN IF ~DidRegex(cleaned) THEN Rejected
       ELSE IF Len(cleaned) > 500 THEN Rejected
       ELSE Cleaned(cleaned)

sanitizeHandle(input) ==
    LET cleaned == toLowerCase(trim(input))
    IN IF ~MatchesPrefixed(cleaned, << >>, HandleChars) THEN Rejected
       ELSE IF Len(cleaned) = 0 \/ Len(cleaned) > 253 THEN Rejected
       ELSE Cleaned(cleaned)

sanitizeSessionId(input) ==
    LET cleaned == trim(input)
    IN IF ~SessRegex(cleaned) THEN Rejected
       ELSE IF Len(cleaned) > 128 THEN Rejected
       ELSE Cleaned(cleaned)

sanitizeDeviceId(input) ==
    LET cleaned == trim(input)
    IN IF ~DevRegex(cleaned) THEN Rejected
       ELSE IF Len(cleaned) > 128 THEN Rejected
       ELSE Cleaned(cleaned)

---------------------------------------------------------------------------
(* Request bodies, responses and the handlers' steps. *)

\* what request.json() and the schema make of a body
BadBody(shape) == [shape |-> shape, did |-> "", handle |-> "", pds |-> NULL,
                   sessionId |-> "", deviceId |-> "", metadata |-> "{}"]

SyncBody(did, handle, pds, sessionId, deviceId, metadata) ==
    [shape |-> "ok", did |-> did, handle |-> handle, pds |-> pds,
     sessionId |-> sessionId, deviceId |-> deviceId, metadata |-> metadata]

\* the bodies the requests of Spec carry
SyncBodies ==
    {BadBody("unparsable"), BadBody("illtyped"),
     SyncBody("did:plc:a", "alice.test", "https://pds.test", "sess_1", "dev_1", "{}"),
     SyncBody("did:plc:a", "bob.test", "https://pds.test", "sess_1", "dev_1", "{deviceInfo}"),
     SyncBody("did:plc:b", "bob.test", "https://pds.test", "sess_1", "dev_2", "{}"),
     SyncBody("did:plc:b", "bob.test", "https://pds.test", "sess_2", "dev_2", "{}"),
     SyncBody("did:plc:a", "alice.test", NULL, "sess_1", "dev_1", "{}")}

\* the bodies the requests of SpecGate carry
GateBodies ==
    {BadBody("illtyped"),
     SyncBody("did:plc:a", "alice.test", "https://pds.test", "sess_1", "dev_1", "{}")}

SessionBody(sessionId) == [BadBody("ok") EXCEPT !.sessionId = sessionId]

\* the session ids that activity, deactivate and protected requests carry:
\* one that sync requests carry too and one that no sync request carries
ProbedIds == {"sess_1", "sess_3"}

\* the bodies the activity and deactivate requests carry
SessionBodies ==
    {BadBody("unparsable"), BadBody("illtyped")} \cup
    {SessionBody(sessionId) : sessionId \in ProbedIds}

\* a response: route and status, what the body says (kind), the statement of
\* the handler it was sent after (stage), the fields of the request it
\* answers, and the fields its body and headers carry
NoResp == [route |-> "none", status |-> 0, kind |-> "none", stage |-> "",
           did |-> "", handle |-> "", userId |-> 0, sessionId |-> "",
           deviceId |-> "", remaining |-> 0, resetTime |-> 0, at |-> 0]

Resp(route, status, kind) ==
    [NoResp EXCEPT !.route = route, !.status = status, !.kind = kind]

\* a handler between two awaits: pc, and the locals it still reads
Done == [pc |-> "done", userId |-> 0, did |-> "", handle |-> "",
         sessionId |-> "", deviceId |-> "", metadata |-> "{}"]

AtBody == [Done EXCEPT !.pc = "body"]

Requests(pc) == {r \in BagToSet(inflight) : r.pc = pc}

Started(r) == inflight (+) SetToBag({r})

Moved(r, to) ==
    IF to.pc = "done" THEN inflight (-) SetToBag({r})
    ELSE (inflight (-) SetToBag({r})) (+) SetToBag({to})

\* data.sessionId.startsWith("sess_")
StartsWithSess(sessionId) ==
    startsWith(Spell[sessionId], <<"s", "e", "s", "s", "_">>)

\* z.string().url(), on the values the model gives pds
IsUrl(v) == v \in {"https://pds.test"}

\* syncSchema of the rate-limited handler, on a body whose fields are strings
syncSchema(body) ==
    /\ Len(Spell[body.did]) >= 1 /\ Len(Spell[body.did]) <= 500
    /\ DidRegex(Spell[body.did])
    /\ Len(Spell[body.handle]) >= 1 /\ Len(Spell[body.handle]) <= 253
    /\ MatchesPrefixed(Spell[body.handle], << >>, HandleChars)
    /\ body.pds # NULL => IsUrl(body.pds)
    /\ Len(Spell[body.sessionId]) >= 1 /\ Len(Spell[body.sessionId]) <= 128
    /\ MatchesPrefixed(Spell[body.sessionId], << >>, TokenChars)
    /\ Len(Spell[body.deviceId]) >= 1 /\ Len(Spell[body.deviceId]) <= 128
    /\ MatchesPrefixed(Spell[body.deviceId], << >>, TokenChars)

\* activitySchema of activity/route.ts, on a body whose fields are strings;
\* lastActiveAt is a datetime in every request of the model
activitySchema(body) ==
    /\ Len(Spell[body.sessionId]) >= 1 /\ Len(Spell[body.sessionId]) <= 128
    /\ SessRegex(Spell[body.sessionId])

\* the gate of a handler that goes on after a denial
syncGateIgnoreLimit(rl, contentTypeOk) ==
    IF ~contentTypeOk THEN "validation" ELSE "body"

\* POST (sync), rate limited, up to its first await: the limiter's answer,
\* then the content type
syncGate(rl, contentTypeOk) ==
    IF ~rl.allowed THEN "rate_limit"
    ELSE IF ~contentTypeOk THEN "validation"
    ELSE "body"

\* a handler without the sess_ test
syncParseNoPrefixTest(body) ==
    IF body.shape = "unparsable" THEN "server_error"
    ELSE IF body.shape = "illtyped" THEN "validation"
    ELSE IF ~syncSchema(body) THEN "validation"
    ELSE "ok"

\* POST (sync), rate limited: request.json(), syncSchema.parse and the
\* sess_ test. A body that is no JSON throws a SyntaxError, which the catch
\* answers like any other error.
syncParse(body) ==
    IF body.shape = "unparsable" THEN "server_error"
    ELSE IF body.shape = "illtyped" THEN "validation"
    ELSE IF ~syncSchema(body) THEN "validation"
    ELSE IF ~StartsWithSess(body.sessionId) THEN "validation"
    ELSE "ok"

\* POST (sync) of sync/route.ts: request.json() and syncSchema.parse; its
\* catch answers every error with a 500
plainParse(body) ==
    IF body.shape = "ok" THEN "ok" ELSE "server_error"

\* a handler that goes on to the session upsert after a failed users upsert
syncUserStepGoOn(us, body, t, dbOk) ==
    LET r == upsertUser(us, body, t, dbOk)
    IN [users |-> r.users,
        slot |-> [pc |-> "session", userId |-> r.user.id, did |-> body.did,
                  handle |-> body.handle,
                  sessionId |-> body.sessionId, deviceId |-> body.deviceId,
                  metadata |-> body.metadata],
        resp |-> NoResp]

\* POST (sync): the users upsert; `if (!user) throw` and the catch
syncUserStep(us, body, t, dbOk) ==
    LET r == upsertUser(us, body, t, dbOk)
    IN IF r.ok
       THEN [users |-> r.users,
             slot |-> [pc |-> "session", userId |-> r.user.id, did |-> body.did,
                       handle |-> body.handle,
                       sessionId |-> body.sessionId, deviceId |-> body.deviceId,
                       metadata |-> body.metadata],
             resp |-> NoResp]
       ELSE [users |-> us, slot |-> Done,
             resp |-> [Resp("sync", 500, "server_error") EXCEPT !.stage = "users"]]

\* POST (sync): the user_sessions upsert, the success response and the catch
syncSessionStep(us, ss, slot, t, dbOk) ==
    LET r == upsertSession(us, ss, slot, t, dbOk)
    IN IF r.ok
       THEN [sessions |-> r.sessions,
             resp |-> [Resp("sync", 200, "ok") EXCEPT
                          !.stage = "sessions", !.did = slot.did,
                          !.handle = slot.handle, !.userId = slot.userId,
                          !.sessionId = slot.sessionId,
                          !.deviceId = slot.deviceId]]
       ELSE [sessions |-> ss,
             resp |-> [Resp("sync", 500, "server_error") EXCEPT
                          !.stage = "sessions", !.did = slot.did,
                          !.handle = slot.handle, !.userId = slot.userId,
                          !.sessionId = slot.sessionId,
                          !.deviceId = slot.deviceId]]

\* POST (activity) of activity/route.ts: content type, request.json(),
\* activitySchema.parse, the update and the responses
activityValidated(ss, contentTypeOk, body, lastActiveAt, dbOk) ==
    IF ~contentTypeOk
    THEN [sessions |-> ss,
          resp |-> [Resp("activity", 400, "validation") EXCEPT !.stage = "parse"]]
    ELSE IF body.shape = "unparsable"
    THEN [sessions |-> ss,
          resp |-> [Resp("activity", 500, "server_error") EXCEPT !.stage = "parse"]]
    ELSE IF body.shape = "illtyped" \/ ~activitySchema(body)
    THEN [sessions |-> ss,
          resp |-> [Resp("activity", 400, "validation") EXCEPT !.stage = "parse"]]
    ELSE LET r == updateActivity(ss, body.sessionId, lastActiveAt, dbOk)
         IN IF ~r.ok
            THEN [sessions |-> ss, resp |-> Resp("activity", 500, "server_error")]
            ELSE [sessions |-> r.sessions,
                  resp |-> [Resp("activity", 200,
                                 IF r.found THEN "ok" ELSE "warning")
                               EXCEPT !.sessionId = body.sessionId]]

\* POST (activity) of part_002: no content type test, every error a 500
activityPlain(ss, body, lastActiveAt, dbOk) ==
    IF body.shape # "ok"
    THEN [sessions |-> ss,
          resp |-> [Resp("activity", 500, "server_error") EXCEPT !.stage = "parse"]]
    ELSE LET r == updateActivity(ss, body.sessionId, lastActiveAt, dbOk)
         IN IF ~r.ok
            THEN [sessions |-> ss, resp |-> Resp("activity", 500, "server_error")]
            ELSE [sessions |-> r.sessions,
                  resp |-> [Resp("activity", 200,
                                 IF r.found THEN "ok" ELSE "warning")
                               EXCEPT !.sessionId = body.sessionId]]

\* POST (deactivate): deactivateSchema takes every string as a session id;
\* the catch answers every error, a ZodError too, with a 500
deactivateHandler(ss, body, dbOk) ==
    IF body.shape # "ok"
    THEN [sessions |-> ss,
          resp |-> [Resp("deactivate", 500, "server_error") EXCEPT !.stage = "parse"]]
    ELSE LET r == deactivate(ss, body.sessionId, dbOk)
         IN IF ~r.ok
            THEN [sessions |-> ss, resp |-> Resp("deactivate", 500, "server_error")]
            ELSE IF ~r.found
            THEN [sessions |-> r.sessions,
                  resp |-> [Resp("deactivate", 404, "not_found")
                               EXCEPT !.sessionId = body.sessionId]]
            ELSE [sessions |-> r.sessions,
                  resp |-> [Resp("deactivate", 200, "ok")
                               EXCEPT !.sessionId = body.sessionId]]

\* middleware on a path under /api/protected; sessionId = "" when neither
\* the header nor the cookie carries one
middlewareProtected(ss, sessionId, t, dbOk) ==
    IF sessionId = ""
    THEN Resp("protected", 401, "auth_required")
    ELSE IF ~dbOk
    THEN [Resp("protected", 500, "server_error") EXCEPT !.sessionId = sessionId]
    ELSE LET found == findActiveSession(ss, sessionId, t)
         IN IF found = {}
            THEN [Resp("protected", 401, "auth_required")
                     EXCEPT !.sessionId = sessionId]
            ELSE [Resp("protected", 200, "forward")
                     EXCEPT !.sessionId = sessionId,
                            !.userId = (CHOOSE s \in found : TRUE).userId]

---------------------------------------------------------------------------
(* The browser: the NymeriaAuth singleton (part_007) and the useAuth hook.  *)

\* the ids generateSessionId returns, in the order it returns them
Minted == <<"sess_1", "sess_2", "sess_3", "sess_4", "sess_5", "sess_6">>

\* generateSessionId(), as the call after n earlier ones
generateSessionId(n) == Minted[n + 1]

\* what handleCallback and restoreSession return
NoSession == [kind |-> "null", sub |-> "", sessionId |-> "", deviceId |-> "",
              handle |-> "", pds |-> NULL]

EnhancedSession(sub, sessionId, deviceId, handle, pds) ==
    [kind |-> "session", sub |-> sub, sessionId |-> sessionId,
     deviceId |-> deviceId, handle |-> handle, pds |-> pds]

\* A JSON text of an object with string properties: its tokens, one pair of
\* key and value per property between the two braces.
OpenBrace == <<"{", "">>

CloseBrace == <<"}", "">>

\* JSON.stringify of the properties given as pairs; a property whose value is
\* undefined is left out
JSONstringify(properties) ==
    <<OpenBrace>> \o SelectSeq(properties, LAMBDA pr : pr[2] # NULL)
                 \o <<CloseBrace>>

\* JSON.parse: throws on a text that is no object
JSONparse(text) ==
    IF /\ Len(text) >= 2
       /\ text[1] = OpenBrace /\ text[Len(text)] = CloseBrace
       /\ \A i \in 2..Len(text) - 1 : text[i][1] \notin {"{", "}"}
    THEN [ok |-> TRUE, properties |-> SubSeq(text, 2, Len(text) - 1)]
    ELSE [ok |-> FALSE, properties |-> << >>]

\* object.key; NULL stands for undefined
Property(properties, key) ==
    IF \E i \in DOMAIN properties : properties[i][1] = key
    THEN properties[CHOOSE i \in DOMAIN properties : properties[i][1] = key][2]
    ELSE NULL

\* what handleCallback makes of the state the provider echoes: parsedState
\* stays null when there is none or JSON.parse throws, else it is the
\* AuthState, whose sessionId may be undefined
NoState == [kind |-> "none", sessionId |-> NULL]

GarbledState == [kind |-> "garbled", sessionId |-> NULL]

AuthState(sessionId) == [kind |-> "state", sessionId |-> sessionId]

\* handleCallback: if ("state" in initResult && initResult.state) try
\* { parsedState = JSON.parse(initResult.state) } catch {}
parseState(text) ==
    IF text = << >> THEN NoState
    ELSE IF ~JSONparse(text).ok THEN GarbledState
    ELSE AuthState(Property(JSONparse(text).properties, "sessionId"))

\* a signIn whose state leaves the sessionId out
signInStateNoId(ident, redirect, sessionId) ==
    JSONstringify(<< <<"ident", ident>>, <<"redirect", redirect>> >>)

\* signIn: JSON.stringify({ident, redirect, sessionId})
signInState(ident, redirect, sessionId) ==
    JSONstringify(<< <<"ident", ident>>, <<"redirect", redirect>>,
                     <<"sessionId", sessionId>> >>)

\* a handleCallback that keeps the id of the constructor when the state
\* carries none
callbackSessionIdKept(state, n) ==
    IF state.sessionId # NULL THEN state.sessionId ELSE generateSessionId(0)

\* handleCallback: parsedState?.sessionId ?? generateSessionId()
callbackSessionId(state, n) ==
    IF state.sessionId # NULL THEN state.sessionId ELSE generateSessionId(n)

\* a callback or restore that goes on without a session
hasSessionAlways(result) == TRUE

\* handleCallback: `if (!initResult?.session) return null` and the catch;
\* restoreSession: `if (!session) return null` and the catch
hasSession(result) == result = "session"

\* what fetchUserProfile makes of the profile request: undefined (the request
\* failed), a profile without a display name, or one with a display name
ProfileFailed == [kind |-> "failed", displayName |-> ""]

ProfileUnnamed == [kind |-> "unnamed", displayName |-> ""]

Profile(displayName) == [kind |-> "named", displayName |-> displayName]

\* handle: userMetadata?.displayName ?? session.sub
handleOf(profile, sub) ==
    IF profile.kind = "named" THEN profile.displayName ELSE sub

\* extractPdsFromSession: the pds property of the provider's session when it
\* has one, undefined otherwise
extractPdsFromSession(sessionPds) == sessionPds

\* the body syncSessionToDatabase sends; JSON.stringify drops an undefined pds
syncRequestBody(session) ==
    SyncBody(session.sub, session.handle, session.pds, session.sessionId,
             session.deviceId, "{deviceInfo}")

\* a syncSessionToDatabase without its try/catch
syncSessionToDatabaseRethrow(fetched) ==
    IF fetched THEN "returns" ELSE "throws"

\* syncSessionToDatabase: the fetch resolves with a response of any status,
\* which is not looked at, or rejects, which the catch swallows
syncSessionToDatabase(fetched) == "returns"

\* POST /api/auth/sync as one of the two handlers serves it, from its entry to
\* its response; status 0 stands for a request that got no response
syncServed(variant, st, us, ss, t, clientIP, body, dbOkUser, dbOkSession) ==
    LET rl == applyRateLimit(st, t, clientIP, RATE_LIMITS.AUTH_SYNC)
        gate == IF variant = "limited" THEN syncGate(rl, TRUE) ELSE "body"
        v == IF variant = "limited" THEN syncParse(body) ELSE plainParse(body)
        u == syncUserStep(us, body, t, dbOkUser)
        r == syncSessionStep(u.users, ss, u.slot, t, dbOkSession)
        st1 == IF variant = "limited" THEN rl.store ELSE st
    IN IF gate # "body"
       THEN [store |-> st1, users |-> us, sessions |-> ss, status |-> 429,
             limited |-> TRUE, allowed |-> FALSE]
       ELSE [store |-> st1,
             users |-> IF v = "ok" THEN u.users ELSE us,
             sessions |-> IF v = "ok" /\ u.slot.pc # "done" THEN r.sessions ELSE ss,
             status |-> IF v = "validation" THEN 400
                        ELSE IF v # "ok" \/ u.slot.pc = "done" THEN 500
                        ELSE r.resp.status,
             limited |-> variant = "limited", allowed |-> TRUE]

\* GET /api/users/[did] and what the user query of useAuth makes of it
userQuery(us, did, dbOk) ==
    IF ~dbOk THEN "error"
    ELSE IF \E u \in us : u.did = did THEN "found"
    ELSE "null"

\* the operation of the singleton that is between two awaits
Idle == [op |-> "none", pc |-> "idle", session |-> NoSession,
         state |-> "none", profile |-> "failed", minted |-> "", before |-> "",
         signIn |-> ""]

\* what the last completed handleCallback met: the result of init(), the
\* state it was given (none, garbled, an AuthState with or without a
\* sessionId), the profile outcome, the id it minted, the id the singleton
\* held before it, the session id of the sync request, whether that request
\* got a response, its status, and whether the store took every statement
NoCallback == [init |-> "none", state |-> "none", profile |-> "failed",
               minted |-> "", before |-> "", synced |-> "", signIn |-> "",
               fetched |-> FALSE, status |-> 0, dbOk |-> FALSE]

\* the ids generateDeviceId returns, in the order it returns them
DeviceMinted == <<"dev_1", "dev_2", "dev_3", "dev_4">>

\* generateDeviceId(), as the call after n earlier ones
generateDeviceId(n) == DeviceMinted[n + 1]

\* localStorage: the two items of the application; "" for an item that is
\* not there (getItem returns null, which the code tests as falsy)
DeviceKey == "nymeria-device-id"

DidKey == "nymeria-current-did"

EmptyStorage == [key \in {DeviceKey, DidKey} |-> ""]

getItem(storage, key) == storage[key]

setItem(storage, key, value) == [storage EXCEPT ![key] = value]

\* a removeItem that leaves the item
removeItemKept(storage, key) == storage

removeItem(storage, key) == [storage EXCEPT ![key] = ""]

\* a getOrCreateDeviceId that does not look for the stored id
getOrCreateDeviceIdFresh(storage, n) ==
    [deviceId |-> generateDeviceId(n),
     storage |-> setItem(storage, DeviceKey, generateDeviceId(n)),
     generated |-> 1]

\* getOrCreateDeviceId in the browser, as the call after n generated ids:
\* the stored id, or a new one that it stores
getOrCreateDeviceId(storage, n) ==
    IF getItem(storage, DeviceKey) # ""
    THEN [deviceId |-> getItem(storage, DeviceKey), storage |-> storage,
          generated |-> 0]
    ELSE [deviceId |-> generateDeviceId(n),
          storage |-> setItem(storage, DeviceKey, generateDeviceId(n)),
          generated |-> 1]

\* the effect of useAuth on currentDid
persistCurrentDid(storage, currentDid) ==
    IF currentDid # "" THEN setItem(storage, DidKey, currentDid)
    ELSE removeItem(storage, DidKey)

\* what the last signOut met: the did it was called with, the session id the
\* singleton held, whether revoke() returned, whether the deactivate request
\* was issued, and the status of its response (0 for none)
NoSignOut == [did |-> "", before |-> "", revoked |-> FALSE,
              requested |-> FALSE, status |-> 0]

\* new NymeriaAuth() and the first render of useAuth in a page of a browser
\* with this localStorage, after the given numbers of generated ids
constructor(storage, mintedDev, minted) ==
    LET d == getOrCreateDeviceId(storage, mintedDev)
    IN [sessionId |-> generateSessionId(minted), deviceId |-> d.deviceId,
        storage |-> persistCurrentDid(d.storage, getItem(d.storage, DidKey)),
        mintedDev |-> mintedDev + d.generated, minted |-> minted + 1,
        run |-> Idle, returned |-> NoSession, lastCallback |-> NoCallback,
        currentDid |-> getItem(d.storage, DidKey),
        session |-> NoSession, sessionStale |-> TRUE,
        user |-> "unset", userStale |-> TRUE]

\* the first page of a browser whose localStorage is empty; pending is the
\* state text the provider holds, signedIn the id the last signIn minted,
\* issued the requests the last restoreSession sent to the server, in order,
\* synced the session id of the last sync request that was answered 200,
\* bg an operation of the singleton that waits at an await while run goes
\* on, overlap whether an operation was started while another one waited
NewClient ==
    LET c == constructor(EmptyStorage, 0, 0)
    IN [sessionId |-> c.sessionId, deviceId |-> c.deviceId,
        storage |-> c.storage, mintedDev |-> c.mintedDev, minted |-> c.minted,
        ops |-> 0, loads |-> 0, pending |-> << >>, signedIn |-> "",
        lastSignOut |-> NoSignOut, issued |-> << >>, synced |-> "",
        bg |-> Idle, overlap |-> FALSE,
        run |-> c.run, returned |-> c.returned, lastCallback |-> c.lastCallback,
        currentDid |-> c.currentDid, session |-> c.session,
        sessionStale |-> c.sessionStale, user |-> c.user,
        userStale |-> c.userStale]

\* a request of the singleton, as far as its route and session id
Issued(route, sessionId) == [route |-> route, sessionId |-> sessionId]

\* a restoreSession that returns right after the sync request
afterSyncReturn(op) == "return"

\* what follows `await this.syncSessionToDatabase(enhancedSession)`: the
\* return in handleCallback, updateSessionActivity in restoreSession
afterSync(op) == IF op = "callback" THEN "return" ELSE "activity"

\* whether signOut reaches deactivateSession: only past the revoke
signOutRequests(revoked) == revoked

\* NymeriaAuth.signOut on the singleton: the try block, or its catch when
\* revoke() throws (deactivateSession catches its own errors)
signOut(c, revoked) ==
    IF revoked
    THEN [c EXCEPT !.storage = removeItem(@, DidKey),
                   !.sessionId = generateSessionId(c.minted),
                   !.minted = @ + 1]
    ELSE [c EXCEPT !.storage = removeItem(@, DidKey)]

\* signOutMutation.onSuccess: setCurrentDid(null) and its effect,
\* queryClient.clear()
signOutSuccess(c) ==
    [c EXCEPT !.currentDid = "",
              !.storage = persistCurrentDid(@, ""),
              !.session = NoSession, !.sessionStale = TRUE,
              !.user = "unset", !.userStale = TRUE]

\* useAuth: isAuthenticated: !!session && !!user
isAuthenticated(c) == c.session.kind = "session" /\ c.user = "found"

---------------------------------------------------------------------------
(* History of the calls to check, per key: the window the key is in (opened *)
(* by the first call, or by the first call after the previous window's end  *)
(* has passed), the limit of the call that opened it, how many calls fell   *)
(* in it and how many of them were allowed.                                 *)

WindowOpen(w, k, t) == Has(w, k) /\ ~(t > w[k].end)

Observe(w, k, t, limit, windowMs, allowed) ==
    IF WindowOpen(w, k, t)
    THEN Put(w, k, [end |-> w[k].end, limit |-> w[k].limit,
                    calls |-> w[k].calls + 1,
                    admitted |-> w[k].admitted + (IF allowed THEN 1 ELSE 0),
                    uniform |-> w[k].uniform /\ limit = w[k].limit])
    ELSE Put(w, k, [end |-> t + windowMs, limit |-> limit, calls |-> 1,
                    admitted |-> IF allowed THEN 1 ELSE 0, uniform |-> TRUE])

NoCall == [called |-> FALSE, identifier |-> "ip1", limit |-> 0, windowMs |-> 0,
           at |-> 0, hadEntry |-> FALSE, swept |-> FALSE, before |-> RateLimitEntry(0, 0),
           after |-> RateLimitEntry(0, 0),
           allowed |-> FALSE, remaining |-> 0, resetTime |-> 0]

---------------------------------------------------------------------------
(* The limiter on its own: any caller, any limit and window per call. *)

Init ==
    /\ now = 0
    /\ store = EmptyMap
    /\ win = EmptyMap
    /\ lastCheck = NoCall
    /\ users = {}
    /\ sessions = {}
    /\ inflight = EmptyBag
    /\ lastResp = NoResp
    /\ client = NewClient

CheckCall(k, limit, windowMs) ==
    /\ WindowOpen(win, k, now) => win[k].calls < MaxCalls
    /\ LET r == check(store, now, k, limit, windowMs)
       IN /\ store' = r.store
          /\ win' = Observe(win, k, now, limit, windowMs, r.allowed)
          /\ lastCheck' = [called |-> TRUE, identifier |-> k, limit |-> limit,
                           windowMs |-> windowMs, at |-> now,
                           hadEntry |-> Has(store, k),
                           swept |-> Has(win, k) /\ ~Has(store, k),
                           before |-> IF Has(store, k) THEN store[k]
                                      ELSE RateLimitEntry(0, 0),
                           after |-> r.store[k],
                           allowed |-> r.allowed, remaining |-> r.remaining,
                           resetTime |-> r.resetTime]
    /\ UNCHANGED <<client, now, serverVars>>

\* the setInterval callback of the constructor
Sweep ==
    /\ store' = cleanup(store, now)
    /\ store' # store
    /\ UNCHANGED <<client, now, win, lastCheck, serverVars>>

Tick ==
    /\ now < MaxTime
    /\ now' = now + 1
    /\ UNCHANGED <<client, store, win, lastCheck, serverVars>>

NextLimiter ==
    \/ \E k \in Keys, limit \in Limits, windowMs \in Windows : CheckCall(k, limit, windowMs)
    \/ Sweep
    \/ Tick

SpecLimiter == Init /\ [][NextLimiter]_vars

---------------------------------------------------------------------------
(* The server: the route handlers, the middleware, the limiter's sweep. *)

\* the instants the clock of SpecGate visits: the start of a window, its
\* last instant and the first one after it
Instants ==
    {0, RATE_LIMITS.AUTH_SYNC.windowMs, RATE_LIMITS.AUTH_SYNC.windowMs + 1}

\* the instants the clock of Spec visits
Epochs == {0, RATE_LIMITS.AUTH_SYNC.windowMs + 1}

\* POST (sync), rate limited, from its entry to `await request.json()`
SyncBegin(clientIP, contentTypeOk, cap) ==
    /\ WindowOpen(win, clientIP, now) => win[clientIP].calls < cap
    /\ LET rl == applyRateLimit(store, now, clientIP, RATE_LIMITS.AUTH_SYNC)
           to == syncGate(rl, contentTypeOk)
       IN /\ to = "body" => BagCardinality(inflight) < MaxHandlers
          /\ store' = rl.store
          /\ win' = Observe(win, clientIP, now, RATE_LIMITS.AUTH_SYNC.limit,
                            RATE_LIMITS.AUTH_SYNC.windowMs, rl.allowed)
          /\ inflight' = IF to = "body" THEN Started(AtBody) ELSE inflight
          /\ lastResp' =
                 IF to = "rate_limit"
                 THEN [Resp("sync", 429, "rate_limit") EXCEPT
                          !.stage = "gate", !.remaining = rl.remaining,
                          !.resetTime = rl.resetTime, !.at = now]
                 ELSE IF to = "validation"
                 THEN [Resp("sync", 400, "validation") EXCEPT !.stage = "gate"]
                 ELSE lastResp
    /\ UNCHANGED <<client, now, users, sessions, lastCheck>>

\* POST (sync), rate limited, from request.json() to the users upsert
SyncUpsertUser(req, body, dbOk) ==
    /\ req \in Requests("body")
    /\ LET v == syncParse(body)
           r == syncUserStep(users, body, now, dbOk)
       IN IF v # "ok"
          THEN /\ inflight' = Moved(req, Done)
               /\ lastResp' =
                      [Resp("sync", IF v = "validation" THEN 400 ELSE 500, v)
                          EXCEPT !.stage = "parse"]
               /\ UNCHANGED users
          ELSE /\ users' = r.users
               /\ inflight' = Moved(req, r.slot)
               /\ lastResp' = IF r.slot.pc = "done" THEN r.resp ELSE lastResp
    /\ UNCHANGED <<client, now, store, win, sessions, lastCheck>>

\* POST (sync) of sync/route.ts, from its entry to the users upsert
PlainSyncUpsertUser(body, dbOk) ==
    /\ LET v == plainParse(body)
           r == syncUserStep(users, body, now, dbOk)
       IN IF v # "ok"
          THEN /\ lastResp' = [Resp("sync", 500, v) EXCEPT !.stage = "parse"]
               /\ UNCHANGED <<users, inflight>>
          ELSE /\ r.slot.pc # "done" => BagCardinality(inflight) < MaxPlain
               /\ users' = r.users
               /\ inflight' = IF r.slot.pc = "done" THEN inflight
                              ELSE Started(r.slot)
               /\ lastResp' = IF r.slot.pc = "done" THEN r.resp ELSE lastResp
    /\ UNCHANGED <<client, now, store, win, sessions, lastCheck>>

\* POST (sync), both files: the user_sessions upsert and the response
SyncUpsertSession(req, dbOk) ==
    /\ req \in Requests("session")
    /\ LET r == syncSessionStep(users, sessions, req, now, dbOk)
       IN /\ sessions' = r.sessions
          /\ lastResp' = r.resp
    /\ inflight' = Moved(req, Done)
    /\ UNCHANGED <<client, now, store, win, users, lastCheck>>

Activity(contentTypeOk, body, lastActiveAt, dbOk) ==
    /\ LET r == activityValidated(sessions, contentTypeOk, body, lastActiveAt, dbOk)
       IN /\ sessions' = r.sessions
          /\ lastResp' = r.resp
    /\ UNCHANGED <<client, now, store, win, users, inflight, lastCheck>>

PlainActivity(body, lastActiveAt, dbOk) ==
    /\ LET r == activityPlain(sessions, body, lastActiveAt, dbOk)
       IN /\ sessions' = r.sessions
          /\ lastResp' = r.resp
    /\ UNCHANGED <<client, now, store, win, users, inflight, lastCheck>>

Deactivate(body, dbOk) ==
    /\ LET r == deactivateHandler(sessions, body, dbOk)
       IN /\ sessions' = r.sessions
          /\ lastResp' = r.resp
    /\ UNCHANGED <<client, now, store, win, users, inflight, lastCheck>>

Middleware(sessionId, dbOk) ==
    /\ lastResp' = middlewareProtected(sessions, sessionId, now, dbOk)
    /\ UNCHANGED <<client, now, store, win, users, sessions, inflight, lastCheck>>

ServerTick(clock) ==
    /\ \E t \in clock : t > now /\ now' = t
    /\ UNCHANGED <<client, store, win, lastCheck, serverVars>>

Rq(contentTypeOk, body, lastActiveAt, dbOk) ==
    [contentTypeOk |-> contentTypeOk, body |-> body,
     lastActiveAt |-> lastActiveAt, dbOk |-> dbOk]

\* The requests of Spec, one for every row and value a handler can write and
\* every answer its statements can lead to: requests that differ in a field
\* their handler does not get to read are one request. The requests that a
\* handler turns down before its first statement are those of SpecBoundary.
SyncRequests ==
    {Rq(TRUE, body, 0, TRUE) : body \in SyncBodies} \cup
    {Rq(TRUE, SyncBody("did:plc:a", "alice.test", "https://pds.test",
                       "sess_1", "dev_1", "{}"), 0, FALSE)}

SessionRequests ==
    {Rq(TRUE, BadBody("illtyped"), 0, TRUE),
     Rq(TRUE, SessionBody("sess_1"), 0, FALSE)} \cup
    {Rq(TRUE, SessionBody(sessionId), t, TRUE) :
        sessionId \in ProbedIds, t \in Epochs}

\* The persistence layer under every request that reaches it. A sync request
\* enters through sync/route.ts, which lets every body through that the
\* rate-limited handler lets through.
Next ==
    \/ \E q \in SyncRequests : PlainSyncUpsertUser(q.body, q.dbOk)
    \/ \E req \in Requests("session"), dbOk \in BOOLEAN :
           SyncUpsertSession(req, dbOk)
    \/ \E q \in SessionRequests :
           Activity(q.contentTypeOk, q.body, q.lastActiveAt, q.dbOk)
    \/ \E q \in {r \in SessionRequests : r.body.shape = "ok"} :
           PlainActivity(q.body, q.lastActiveAt, q.dbOk)
    \/ \E q \in {r \in SessionRequests : r.body.shape = "ok" /\ r.lastActiveAt = 0} :
           Deactivate(q.body, q.dbOk)
    \/ \E q \in {r \in SessionRequests : r.lastActiveAt = 0} :
           Middleware(q.body.sessionId, q.dbOk)
    \/ ServerTick(Epochs)

Spec == Init /\ [][Next]_vars

\* The rate-limited sync endpoint with the quota of a window used up.
NextGate ==
    \/ \E ip \in Clients, ct \in BOOLEAN :
           SyncBegin(ip, ct, RATE_LIMITS.AUTH_SYNC.limit + MaxOver)
    \/ \E req \in Requests("body"), body \in GateBodies, dbOk \in BOOLEAN :
           SyncUpsertUser(req, body, dbOk)
    \/ \E req \in Requests("session"), dbOk \in BOOLEAN :
           SyncUpsertSession(req, dbOk)
    \/ Sweep
    \/ ServerTick(Instants)

SpecGate == Init /\ [][NextGate]_vars

---------------------------------------------------------------------------
(* The endpoints under requests whose fields are malformed. *)

\* the sync bodies of SpecBoundary: no JSON, a field of a wrong type, a
\* well-formed body, an upper-case did and handle, a device id without the
\* dev_ prefix, a session id without the sess_ prefix, the bare prefix, a
\* handle with a space
BoundarySyncBodies ==
    {BadBody("unparsable"), BadBody("illtyped"),
     SyncBody("did:plc:a", "alice.test", "https://pds.test", "sess_1", "dev_1", "{}"),
     SyncBody("did:plc:A", "Alice.Test", "https://pds.test", "sess_1", "dev_1", "{}"),
     SyncBody("did:plc:a", "alice.test", "https://pds.test", "sess_1", "tab_1", "{}"),
     SyncBody("did:plc:a", "alice.test", "https://pds.test", "evil_1", "dev_1", "{}"),
     SyncBody("did:plc:a", "alice.test", "https://pds.test", "sess_", "dev_1", "{}"),
     SyncBody("did:plc:a", "Alice Doe", "https://pds.test", "sess_1", "dev_1", "{}")}

\* the activity and deactivate requests of SpecBoundary
BoundarySessionRequests ==
    {Rq(FALSE, SessionBody("sess_1"), 0, TRUE),
     Rq(TRUE, BadBody("unparsable"), 0, TRUE),
     Rq(TRUE, BadBody("illtyped"), 0, TRUE),
     Rq(TRUE, SessionBody("sess_1"), 0, FALSE)} \cup
    {Rq(TRUE, SessionBody(sessionId), 0, TRUE) :
        sessionId \in {"sess_1", "sess_", "evil_1", " sess_1"}}

NextBoundary ==
    \/ \E ip \in Clients, ct \in BOOLEAN : SyncBegin(ip, ct, MaxSyncs)
    \/ \E req \in Requests("body"), body \in BoundarySyncBodies, dbOk \in BOOLEAN :
           SyncUpsertUser(req, body, dbOk)
    \/ \E req \in Requests("session"), dbOk \in BOOLEAN :
           SyncUpsertSession(req, dbOk)
    \/ \E q \in BoundarySessionRequests :
           Activity(q.contentTypeOk, q.body, q.lastActiveAt, q.dbOk)
    \/ \E q \in {r \in BoundarySessionRequests : r.contentTypeOk} :
           PlainActivity(q.body, q.lastActiveAt, q.dbOk)
    \/ \E q \in {r \in BoundarySessionRequests : r.contentTypeOk} :
           Deactivate(q.body, q.dbOk)

SpecBoundary == Init /\ [][NextBoundary]_vars

---------------------------------------------------------------------------
(* The browser against the server: one page, its singleton and its hook,   *)
(* one operation of the singleton at a time.                               *)

\* the subject of the session the provider returns
ProviderSub == "did:plc:a"

\* the outcomes of init() and restore(): a session, none, an exception
ProviderResults == {"session", "none", "throws"}

\* the states the provider echoes that hold no sessionId for handleCallback:
\* a text cut short, an AuthState serialized without a sessionId
UnreadableStates ==
    {<<OpenBrace, <<"sessionId", "sess_1">> >>,
     signInState("alice.test", "/", NULL)}

\* the states the provider echoes to a page that made no signIn: none, a
\* text cut short, an AuthState with the sessionId of an earlier sign-in
EchoedStates ==
    {<< >>,
     <<OpenBrace, <<"sessionId", "sess_1">> >>,
     signInState("alice.test", "/", "sess_1")}

\* none, garbled, noid (an AuthState without a sessionId) or state
StateKind(state) ==
    IF state.kind = "state" /\ state.sessionId = NULL THEN "noid" ELSE state.kind

\* the outcomes of the profile request
ProfileOutcomes ==
    {ProfileFailed, ProfileUnnamed, Profile("alice.test")}

\* the pds property of the provider's session: absent, or a URL
SessionPds == {NULL, "https://pds.test"}

\* the store takes every statement, or fails at one of them
StatementOutcomes == {<<TRUE, TRUE>>, <<FALSE, TRUE>>, <<TRUE, FALSE>>}

\* the limiter of a server that has served no request of this client's
\* address, or has served it AUTH_SYNC.limit requests in the open window
InitBrowser ==
    /\ now = 0
    /\ \E used \in {0, RATE_LIMITS.AUTH_SYNC.limit} :
           /\ store = IF used = 0 THEN EmptyMap
                      ELSE Put(EmptyMap, "ip1",
                               RateLimitEntry(used, RATE_LIMITS.AUTH_SYNC.windowMs))
           /\ win = IF used = 0 THEN EmptyMap
                    ELSE Put(EmptyMap, "ip1",
                             [end |-> RATE_LIMITS.AUTH_SYNC.windowMs,
                              limit |-> RATE_LIMITS.AUTH_SYNC.limit,
                              calls |-> used, admitted |-> used,
                              uniform |-> TRUE])
    /\ lastCheck = NoCall
    /\ users = {}
    /\ sessions = {}
    /\ inflight = EmptyBag
    /\ lastResp = NoResp
    /\ client = NewClient

\* useAuth.handleCallback -> NymeriaAuth.handleCallback, up to the profile
\* request: init(), the state, this.sessionId
CallbackInit(result, text) ==
    /\ client.run.op = "none"
    /\ client.bg.op # "callback"
    /\ client.ops < MaxOps
    /\ parseState(text).sessionId = NULL => client.minted < Len(Minted)
    /\ LET state == parseState(text)
           mints == state.sessionId = NULL
       IN client' =
              IF ~hasSession(result)
              THEN [client EXCEPT !.ops = @ + 1, !.returned = NoSession,
                                  !.lastCallback = NoCallback]
              ELSE [client EXCEPT
                       !.ops = @ + 1,
                       !.overlap = @ \/ client.bg.op # "none",
                       !.sessionId = callbackSessionId(state, client.minted),
                       !.minted = IF mints THEN @ + 1 ELSE @,
                       !.run = [Idle EXCEPT
                                   !.op = "callback", !.pc = "profile",
                                   !.state = StateKind(state),
                                   !.before = client.sessionId,
                                   !.signIn = IF text # << >> /\ text = client.pending
                                              THEN client.signedIn ELSE "",
                                   !.minted = IF mints
                                              THEN generateSessionId(client.minted)
                                              ELSE ""]]
    /\ UNCHANGED <<now, store, win, lastCheck, serverVars>>

\* the session query of useAuth -> NymeriaAuth.restoreSession, up to the
\* profile request
RestoreInit(result) ==
    /\ client.run.op = "none"
    /\ client.bg.op # "restore"
    /\ client.ops < MaxOps
    /\ client.currentDid # ""
    /\ client.sessionStale
    /\ client' =
           IF ~hasSession(result)
           THEN [client EXCEPT !.ops = @ + 1, !.session = NoSession,
                               !.issued = << >>,
                               !.sessionStale = FALSE,
                               !.user = "unset", !.userStale = TRUE]
           ELSE [client EXCEPT
                    !.ops = @ + 1,
                    !.overlap = @ \/ client.bg.op # "none",
                    !.issued = << >>,
                    !.run = [Idle EXCEPT !.op = "restore", !.pc = "profile"]]
    /\ UNCHANGED <<now, store, win, lastCheck, serverVars>>

\* fetchUserProfile, extractPdsFromSession and the EnhancedSession
FetchProfile(profile, sessionPds) ==
    /\ client.run.pc = "profile"
    /\ client' =
           [client EXCEPT
               !.run.pc = "sync",
               !.run.profile = profile.kind,
               !.run.session =
                   EnhancedSession(ProviderSub, client.sessionId, client.deviceId,
                                   handleOf(profile, ProviderSub),
                                   extractPdsFromSession(sessionPds))]
    /\ UNCHANGED <<now, store, win, lastCheck, serverVars>>

\* the end of restoreSession in the session query
Restored(c, result) ==
    [c EXCEPT !.run = Idle, !.session = result, !.sessionStale = FALSE,
              !.user = IF result.kind = "session" THEN @ ELSE "unset",
              !.userStale = IF result.kind = "session" THEN @ ELSE TRUE]

\* syncSessionToDatabase and the handler that serves it; after it the end of
\* handleCallback (useAuth sets currentDid and invalidates its queries), or
\* the activity request of restoreSession
SyncToDatabase(variant, fetched, dbOk) ==
    /\ client.run.pc = "sync"
    /\ ~fetched => variant = "plain" /\ dbOk = <<TRUE, TRUE>>
    /\ LET r == syncServed(variant, store, users, sessions, now, "ip1",
                           syncRequestBody(client.run.session), dbOk[1], dbOk[2])
           threw == syncSessionToDatabase(fetched) = "throws"
           ret == IF threw THEN NoSession ELSE client.run.session
           served == [client EXCEPT
                         !.synced = IF fetched /\ r.status = 200
                                    THEN syncRequestBody(client.run.session).sessionId
                                    ELSE @]
       IN /\ store' = IF fetched THEN r.store ELSE store
          /\ win' = IF fetched /\ r.limited
                    THEN Observe(win, "ip1", now, RATE_LIMITS.AUTH_SYNC.limit,
                                 RATE_LIMITS.AUTH_SYNC.windowMs, r.allowed)
                    ELSE win
          /\ users' = IF fetched THEN r.users ELSE users
          /\ sessions' = IF fetched THEN r.sessions ELSE sessions
          /\ client' =
                 IF client.run.op = "callback"
                 THEN [served EXCEPT
                          !.run = Idle,
                          !.returned = ret,
                          !.lastCallback =
                              [init |-> "session", state |-> client.run.state,
                               profile |-> client.run.profile,
                               minted |-> client.run.minted,
                               before |-> client.run.before,
                               signIn |-> client.run.signIn,
                               synced |-> syncRequestBody(client.run.session).sessionId,
                               fetched |-> fetched,
                               status |-> IF fetched THEN r.status ELSE 0,
                               dbOk |-> dbOk[1] /\ dbOk[2]],
                          !.currentDid = IF threw THEN @ ELSE ret.sub,
                          !.storage = IF threw THEN @
                                      ELSE persistCurrentDid(@, ret.sub),
                          !.sessionStale = IF threw THEN @ ELSE TRUE,
                          !.userStale = IF threw THEN @ ELSE TRUE]
                 ELSE LET sent == [served EXCEPT
                                     !.issued = Append(@, Issued("sync",
                                         syncRequestBody(client.run.session).sessionId))]
                      IN IF threw THEN Restored(sent, NoSession)
                         ELSE IF afterSync(client.run.op) = "activity"
                         THEN [sent EXCEPT !.run.pc = "activity"]
                         ELSE Restored(sent, client.run.session)
    /\ UNCHANGED <<now, lastCheck, inflight, lastResp>>

\* updateSessionActivity and the handler of activity/route.ts, then the end
\* of restoreSession
UpdateActivity(fetched, dbOk) ==
    /\ client.run.pc = "activity"
    /\ ~fetched => dbOk
    /\ sessions' =
           IF fetched
           THEN activityValidated(sessions, TRUE,
                                  SessionBody(client.run.session.sessionId),
                                  now, dbOk).sessions
           ELSE sessions
    /\ client' =
           Restored([client EXCEPT
                        !.issued = Append(@, Issued("activity",
                                                    client.run.session.sessionId))],
                    client.run.session)
    /\ UNCHANGED <<now, store, win, lastCheck, users, inflight, lastResp>>

\* the user query of useAuth and GET /api/users/[did]; a query that throws
\* leaves the data it had
FetchUser(dbOk) ==
    /\ client.session.kind = "session"
    /\ client.userStale
    /\ LET got == userQuery(users, client.session.sub, dbOk)
       IN client' = [client EXCEPT !.user = IF got = "error" THEN @ ELSE got,
                                   !.userStale = FALSE]
    /\ UNCHANGED <<now, store, win, lastCheck, serverVars>>

NextClient ==
    \/ \E result \in ProviderResults, text \in EchoedStates :
           CallbackInit(result, text)
    \/ \E result \in ProviderResults : RestoreInit(result)
    \/ \E profile \in ProfileOutcomes, sessionPds \in SessionPds :
           FetchProfile(profile, sessionPds)
    \/ \E variant \in {"plain", "limited"}, fetched \in BOOLEAN,
          dbOk \in StatementOutcomes :
           SyncToDatabase(variant, fetched, dbOk)
    \/ \E fetched \in BOOLEAN, dbOk \in BOOLEAN : UpdateActivity(fetched, dbOk)
    \/ \E dbOk \in BOOLEAN : FetchUser(dbOk)

SpecClient == InitBrowser /\ [][NextClient]_vars

---------------------------------------------------------------------------
(* The sanitizers of sanitize.ts, called on a string and then on what they *)
(* returned. lastResp holds the call: the function, its input, the value   *)
(* returned, and the value returned for that value.                        *)

\* the characters put before and after a string
PadChars == {" ", "U+0000"}

Pads == UNION {[1..n -> PadChars] : n \in 0..MaxPad}

\* the strings the sanitizers are called on, without their padding
SanitizerCores ==
    {Spell["did:plc:A"], Spell["Alice.Test"], Spell["Alice Doe"],
     Spell["sess_1"], Spell["dev_1"], Spell["evil_1"],
     <<"a", "\t", " ", "b">>,
     <<"H", "T", "T", "P", "S", ":", "/", "/", "P", "d", "s", ".", "t", "e", "s", "t">>,
     <<"h", "t", "t", "p", ":", "/", "/", "p", "d", "s", ".", "t", "e", "s", "t", "/", "x">>,
     <<"f", "t", "p", ":", "/", "/", "p", "d", "s", ".", "t", "e", "s", "t">>}

SanitizerInputs ==
    {before \o core \o after :
        before \in Pads, core \in SanitizerCores, after \in Pads}

Sanitizers == {"sanitizeText", "sanitizeUrl", "sanitizeDid", "sanitizeHandle",
               "sanitizeSessionId", "sanitizeDeviceId"}

sanitize(fn, input) ==
    CASE fn = "sanitizeText" -> sanitizeText(input)
      [] fn = "sanitizeUrl" -> sanitizeUrl(input)
      [] fn = "sanitizeDid" -> sanitizeDid(input)
      [] fn = "sanitizeHandle" -> sanitizeHandle(input)
      [] fn = "sanitizeSessionId" -> sanitizeSessionId(input)
      [] fn = "sanitizeDeviceId" -> sanitizeDeviceId(input)

InitSanitize ==
    /\ now = 0
    /\ store = EmptyMap
    /\ win = EmptyMap
    /\ lastCheck = NoCall
    /\ users = {}
    /\ sessions = {}
    /\ inflight = EmptyBag
    /\ client = NewClient
    /\ \E input \in SanitizerInputs :
           lastResp = [route |-> "sanitize", fn |-> "none", input |-> input,
                       once |-> Rejected, again |-> FALSE, twice |-> Rejected]

\* a sanitizer is called on the input
Sanitize(fn) ==
    /\ lastResp.fn = "none"
    /\ lastResp' = [lastResp EXCEPT !.fn = fn, !.once = sanitize(fn, lastResp.input)]
    /\ UNCHANGED <<client, now, store, win, lastCheck, users, sessions, inflight>>

\* the same sanitizer is called on the value it returned
SanitizeAgain ==
    /\ lastResp.fn # "none"
    /\ lastResp.once.ok
    /\ ~lastResp.again
    /\ lastResp' = [lastResp EXCEPT
                       !.again = TRUE,
                       !.twice = sanitize(lastResp.fn, lastResp.once.value)]
    /\ UNCHANGED <<client, now, store, win, lastCheck, users, sessions, inflight>>

NextSanitize ==
    \/ \E fn \in Sanitizers : Sanitize(fn)
    \/ SanitizeAgain

SpecSanitize == InitSanitize /\ [][NextSanitize]_vars

---------------------------------------------------------------------------
(* The life of one browser installation: sign-in, the navigation to the    *)
(* provider and back (a new page, a new singleton), the callback, the      *)
(* restore of the remembered subject, sign-out.                            *)

\* NymeriaAuth.signIn: a new session id, the state handed to the provider
SignIn(ident) ==
    /\ client.run.op = "none"
    /\ client.minted < MaxMinted
    /\ LET sessionId == generateSessionId(client.minted)
       IN client' = [client EXCEPT
                        !.sessionId = sessionId,
                        !.minted = @ + 1,
                        !.pending = signInState(ident, "/", sessionId),
                        !.signedIn = sessionId]
    /\ UNCHANGED <<now, store, win, lastCheck, serverVars>>

\* a page is loaded in the same browser: the module makes its singleton, the
\* hook renders for the first time
PageLoad ==
    /\ client.run.op = "none"
    /\ client.loads < MaxLoads
    /\ client.minted < MaxMinted
    /\ LET c == constructor(client.storage, client.mintedDev, client.minted)
       IN client' = [client EXCEPT
                        !.loads = @ + 1,
                        !.sessionId = c.sessionId, !.deviceId = c.deviceId,
                        !.storage = c.storage, !.mintedDev = c.mintedDev,
                        !.minted = c.minted, !.run = c.run,
                        !.returned = c.returned,
                        !.lastCallback = c.lastCallback,
                        !.currentDid = c.currentDid, !.session = c.session,
                        !.sessionStale = c.sessionStale, !.user = c.user,
                        !.userStale = c.userStale]
    /\ UNCHANGED <<now, store, win, lastCheck, serverVars>>

\* signOutMutation: NymeriaAuth.signOut with the handler that serves its
\* deactivate request, then onSuccess
SignOut(revoked, fetched, dbOk) ==
    /\ client.run.op = "none"
    /\ client.currentDid # ""
    /\ revoked => client.minted < MaxMinted
    /\ ~revoked => ~fetched
    /\ ~fetched => dbOk
    /\ LET requested == signOutRequests(revoked)
           r == deactivateHandler(sessions, SessionBody(client.sessionId), dbOk)
       IN /\ sessions' = IF requested /\ fetched THEN r.sessions ELSE sessions
          /\ client' =
                 [signOutSuccess(signOut(client, revoked)) EXCEPT
                     !.lastSignOut =
                         [did |-> client.currentDid,
                          before |-> client.sessionId,
                          revoked |-> revoked,
                          requested |-> requested,
                          status |-> IF requested /\ fetched
                                     THEN r.resp.status ELSE 0]]
    /\ UNCHANGED <<now, store, win, lastCheck, users, inflight, lastResp>>

NextLifecycle ==
    \/ \E ident \in {"alice.test"} : SignIn(ident)
    \/ PageLoad
    \/ \E result \in ProviderResults,
          text \in {client.pending} \cup UnreadableStates :
           CallbackInit(result, text)
    \/ \E result \in ProviderResults : RestoreInit(result)
    \/ \E sessionPds \in SessionPds : FetchProfile(ProfileFailed, sessionPds)
    \/ \E fetched \in BOOLEAN : SyncToDatabase("plain", fetched, <<TRUE, TRUE>>)
    \/ \E fetched \in BOOLEAN : UpdateActivity(fetched, TRUE)
    \/ \E revoked \in BOOLEAN, fetched \in BOOLEAN, dbOk \in BOOLEAN :
           SignOut(revoked, fetched, dbOk)

SpecLifecycle == InitBrowser /\ [][NextLifecycle]_vars

---------------------------------------------------------------------------
(* The callback page of a browser that remembers a subject: the session    *)
(* query of useAuth calls restoreSession while the page calls              *)
(* handleCallback, on the same singleton. Each operation runs from one     *)
(* await to the next; at an await the other operation may go on, or start. *)

\* the page the provider redirects to, after an earlier page (the first of
\* this browser) called signIn: the subject of an earlier sign-in is in
\* localStorage, the provider holds the state of that signIn
InitRace ==
    /\ now = 0
    /\ store = EmptyMap
    /\ win = EmptyMap
    /\ lastCheck = NoCall
    /\ users = {}
    /\ sessions = {}
    /\ inflight = EmptyBag
    /\ lastResp = NoResp
    /\ \E sessionId \in {generateSessionId(1), NULL} :
           LET c == constructor(setItem(NewClient.storage, DidKey, ProviderSub),
                                NewClient.mintedDev, 2)
           IN client = [NewClient EXCEPT
                           !.loads = 1,
                           !.pending = signInState("alice.test", "/", sessionId),
                           !.signedIn = generateSessionId(1),
                           !.sessionId = c.sessionId, !.deviceId = c.deviceId,
                           !.storage = c.storage, !.mintedDev = c.mintedDev,
                           !.minted = c.minted, !.currentDid = c.currentDid]

\* the operation that runs reaches an await and the one that waits goes on,
\* or none waits and another one may start
Switch ==
    /\ client.run.op # "none" \/ client.bg.op # "none"
    /\ client' = [client EXCEPT !.run = client.bg, !.bg = client.run]
    /\ UNCHANGED <<now, store, win, lastCheck, serverVars>>

NextRace ==
    \/ \E result \in ProviderResults : CallbackInit(result, client.pending)
    \/ \E result \in ProviderResults : RestoreInit(result)
    \/ \E sessionPds \in SessionPds : FetchProfile(ProfileFailed, sessionPds)
    \/ \E fetched \in BOOLEAN : SyncToDatabase("plain", fetched, <<TRUE, TRUE>>)
    \/ \E fetched \in BOOLEAN : UpdateActivity(fetched, TRUE)
    \/ Switch

SpecRace == InitRace /\ [][NextRace]_vars

---------------------------------------------------------------------------
(* Claims about RateLimiter.check, under SpecLimiter. *)

LastWin == win[lastCheck.identifier]

FirstNThenDenied ==
    /\ lastCheck.allowed <=> LastWin.calls <= lastCheck.limit
    /\ ~lastCheck.allowed =>
           lastCheck.hadEntry /\ lastCheck.before.count >= lastCheck.limit

C2_FreshWindowAfterReset ==
    (lastCheck.called
        /\ (~lastCheck.hadEntry \/ lastCheck.at > lastCheck.before.resetTime))
    => /\ lastCheck.allowed
       /\ lastCheck.after = RateLimitEntry(1, lastCheck.at + lastCheck.windowMs)
       /\ lastCheck.resetTime = lastCheck.at + lastCheck.windowMs

\* a key whose previous window was exhausted is called again right after
\* its resetTime
C2_Witness ==
    /\ lastCheck.called
    /\ lastCheck.hadEntry
    /\ lastCheck.limit >= 1
    /\ lastCheck.before.count >= lastCheck.limit
    /\ lastCheck.at = lastCheck.before.resetTime + 1
    /\ lastCheck.allowed

Max0(x) == IF x > 0 THEN x ELSE 0

\* C4: for every identifier, limit and window the remaining value a call
\* to check returns is max(0, limit - count), count being the entry's count
\* after the call; it is never negative.
C4_RemainingIsMaxZero ==
    lastCheck.called
        => /\ lastCheck.remaining = Max0(lastCheck.limit - lastCheck.after.count)
           /\ lastCheck.remaining >= 0

---------------------------------------------------------------------------
(* Claims about the rate-limited sync endpoint, under SpecGate. *)

AuthSyncLimit == RATE_LIMITS.AUTH_SYNC.limit

\* C3: whatever the interleaving of the sync handlers that call check for
\* one client identifier, at most N = 10 of their calls are allowed within
\* one window, and the entry's count is the number of calls allowed in it:
\* no two handlers pass on the same observed count.
C3_AtMostNPerWindow ==
    \A ip \in Clients :
        Has(win, ip) =>
            /\ win[ip].admitted <= AuthSyncLimit
            /\ WindowOpen(win, ip, now) =>
                   Has(store, ip) /\ store[ip].count = win[ip].admitted

\* the quota of a window is used up, a further call fell in the window, and
\* two admitted handlers are between their awaits
C3_Witness ==
    /\ Has(win, "ip1")
    /\ win["ip1"].admitted = AuthSyncLimit
    /\ win["ip1"].calls > AuthSyncLimit
    /\ BagCardinality(inflight) = 2

\* the step of the request that is the (N+1)-th of its client's window
EleventhOf(ip) ==
    /\ Has(win', ip)
    /\ win'[ip].calls = AuthSyncLimit + 1
    /\ ~Has(win, ip) \/ win[ip] # win'[ip]

\* C5: the 11th sync request of one client identifier within one window of
\* the 10-per-minute policy is answered 429 with remaining = 0 and a
\* resetTime not before the current time, and it writes no user row and no
\* session row, nor does it leave a handler behind that would.
C5_EleventhRejected ==
    [][\A ip \in Clients :
           EleventhOf(ip) =>
               /\ lastResp'.route = "sync"
               /\ lastResp'.status = 429
               /\ lastResp'.kind = "rate_limit"
               /\ lastResp'.remaining = 0
               /\ lastResp'.resetTime >= now
               /\ UNCHANGED <<users, sessions, inflight>>]_vars

\* the 11th request of a window has just been answered, after ten requests
\* that were let through
C5_Witness ==
    /\ Has(win, "ip1")
    /\ win["ip1"].calls = AuthSyncLimit + 1
    /\ win["ip1"].admitted = AuthSyncLimit
    /\ lastResp.status = 429
    /\ lastResp.at = now

---------------------------------------------------------------------------
(* Claims about the persistence layer, under Spec. *)

\* the handlers that a step starts on their way to the session upsert
UpsertedUsers ==
    {r \in BagToSet(inflight') :
        r.pc = "session" /\ CopiesIn(r, inflight') > CopiesIn(r, inflight)}

\* the handlers whose session upsert a step runs
UpsertedSessions ==
    {r \in BagToSet(inflight) :
        r.pc = "session" /\ CopiesIn(r, inflight') < CopiesIn(r, inflight)}

UniqueRows ==
    /\ \A u, v \in users : u.did = v.did => u = v
    /\ \A u, v \in users : u.id = v.id => u = v
    /\ \A s, t \in sessions : s.sessionId = t.sessionId => s = t

\* C6: there is never more than one user row per did nor more than one
\* session row per session_id, and a successful users upsert for a did
\* leaves exactly one row for it, whose handle is the one of this call and
\* whose id and created_at are those the first call for the did set; the
\* session upsert that follows leaves exactly one row for its session_id.
C6_OneIdentityPerDid ==
    [][/\ UniqueRows'
       /\ \A r \in UpsertedUsers :
              \E v \in users' :
                  /\ v.did = r.did /\ v.handle = r.handle /\ v.id = r.userId
                  /\ \A u \in users :
                         u.did = r.did =>
                             v.createdAt = u.createdAt /\ v.id = u.id
                  /\ (\A u \in users : u.did # r.did) => v.createdAt = now
                  /\ users' \ {v} = {u \in users : u.did # r.did}
       /\ \A r \in UpsertedSessions :
              lastResp'.status = 200 =>
                  Cardinality({s \in sessions' : s.sessionId = r.sessionId}) = 1
      ]_vars

\* did:plc:a, the only did synced so far, was synced with sess_1 and the
\* handle alice.test, the one call that leaves the session row with the
\* metadata {}; a later call for the same did and session with the handle
\* bob.test has run its users upsert
C6_Witness ==
    /\ Cardinality(users) = 1
    /\ \E u \in users :
           /\ u.did = "did:plc:a" /\ u.handle = "bob.test"
           /\ u.createdAt < u.lastSeenAt
           /\ \E s \in sessions :
                  /\ s.sessionId = "sess_1" /\ s.userId = u.id
                  /\ s.metadata = "{}"
    /\ \E r \in Requests("session") :
           r.did = "did:plc:a" /\ r.handle = "bob.test" /\ r.sessionId = "sess_1"

\* C7: a sync call whose session_id already has a session row changes only
\* that row's last_active_at and metadata: its user_id, device_id,
\* is_active and expires_at stay, every other row stays as it is and no
\* row is added, whatever did and device_id the call carries.
C7_ConflictUpdatesTwoFields ==
    [][\A r \in UpsertedSessions :
           (\E s \in sessions : s.sessionId = r.sessionId) =>
               /\ Cardinality(sessions') = Cardinality(sessions)
               /\ \A s \in sessions :
                      \E t \in sessions' :
                          /\ t.sessionId = s.sessionId
                          /\ t.userId = s.userId
                          /\ t.deviceId = s.deviceId
                          /\ t.isActive = s.isActive
                          /\ t.expiresAt = s.expiresAt
                          /\ s.sessionId # r.sessionId => t = s
      ]_vars

\* a sync call for sess_1 that carried another did and another device than
\* those of the row has been answered with success; the row is deactivated
\* and has the metadata and the time of that call
C7_Witness ==
    /\ lastResp.route = "sync" /\ lastResp.status = 200
    /\ lastResp.sessionId = "sess_1"
    /\ \E s \in sessions :
           /\ s.sessionId = "sess_1"
           /\ s.userId # lastResp.userId
           /\ s.deviceId # lastResp.deviceId
           /\ ~s.isActive
           /\ s.lastActiveAt = now /\ now > 0
    /\ Cardinality(sessions) = 2

\* C8: in every reachable state every session row's user_id is the id of a
\* user row.
C8_SessionHasOwner ==
    \A s \in sessions : \E u \in users : u.id = s.userId

\* two users own a session row each, and the last request, a sync, failed
\* at its session upsert
C8_Witness ==
    /\ Cardinality({s.userId : s \in sessions}) = 2
    /\ lastResp.route = "sync" /\ lastResp.status = 500
    /\ lastResp.stage = "sessions"

SessionIdsOf(ss) == {s.sessionId : s \in ss}

\* C9: the set of session_ids that have a row changes only in the step of
\* a sync handler's session upsert that is answered with success, and then
\* by that request's session_id; activity, deactivate and the middleware
\* add no row.
C9_OnlySyncCreates ==
    [][SessionIdsOf(sessions') # SessionIdsOf(sessions) =>
           /\ lastResp'.route = "sync" /\ lastResp'.status = 200
           /\ \E r \in UpsertedSessions :
                  SessionIdsOf(sessions') =
                      SessionIdsOf(sessions) \cup {r.sessionId}
      ]_vars

\* an activity update for a session_id without a row was answered, and the
\* session_id still has no row, while another one has
C9_Witness ==
    /\ lastResp.route = "activity" /\ lastResp.status = 200
    /\ lastResp.kind = "warning"
    /\ lastResp.sessionId \notin SessionIdsOf(sessions)
    /\ sessions # {}

\* the step of a sync handler that answers after its users upsert failed
UsersUpsertFailed ==
    /\ lastResp' # lastResp
    /\ lastResp'.route = "sync"
    /\ lastResp'.stage = "users"

\* C10: a sync whose users upsert fails is answered with a failure, leaves
\* every row as it is and does not go on to the session upsert: a handler
\* runs its session upsert only with the user row of its did persisted. A
\* sync whose session upsert fails after its users upsert succeeded is
\* answered with the generic failure, and the user row stays.
C10_PartialFailure ==
    [][/\ UsersUpsertFailed =>
              /\ lastResp'.status = 500
              /\ UNCHANGED <<users, sessions, inflight>>
       /\ \A r \in UpsertedUsers \cup UpsertedSessions :
              \E u \in users' : u.id = r.userId /\ u.did = r.did
       /\ \A r \in UpsertedSessions :
              \/ /\ lastResp'.status = 200
                 /\ \E t \in sessions' : t.sessionId = r.sessionId
              \/ /\ lastResp'.status = 500
                 /\ lastResp'.kind = "server_error"
                 /\ UNCHANGED <<users, sessions>>
      ]_vars

\* the first sync of did:plc:b failed at its session upsert: the user row
\* it wrote is there, no session row is
C10_Witness ==
    /\ lastResp.route = "sync" /\ lastResp.status = 500
    /\ lastResp.stage = "sessions" /\ lastResp.did = "did:plc:b"
    /\ \E u \in users : u.did = "did:plc:b" /\ u.id = lastResp.userId
    /\ sessions = {}

---------------------------------------------------------------------------
(* Claims about optional fields and the gateway, under Spec. *)

\* C11 as stated: a sync request whose required fields are valid and that
\* omits the optional ones (pds among them), sent while the store takes
\* statements, has its Identity persisted and its handler go on to the
\* session upsert.
C11_OptionalFieldsAccepted ==
    [][\A q \in SyncRequests :
          (/\ q.dbOk /\ q.body.shape = "ok" /\ q.body.pds = NULL
           /\ PlainSyncUpsertUser(q.body, q.dbOk))
          => /\ \E u \in users' : u.did = q.body.did
             /\ UpsertedUsers # {}]_vars

\* a protected request was answered in this step
GatewayAnswered ==
    /\ lastResp' # lastResp
    /\ lastResp'.route = "protected"

\* the rows of a session id the gateway may forward at instant t
Forwardable(ss, sessionId, t) ==
    {s \in ss : /\ s.sessionId = sessionId /\ s.isActive
                /\ s.expiresAt # NULL /\ s.expiresAt > t}

\* C13: the gateway forwards a protected request only when a row of its
\* session id exists, is active and is not expired, and then with the user
\* id of that row; a request without a session id gets the
\* authentication-required answer, and so does every request whose lookup
\* completes and finds the id unknown, inactive or expired; none of them is
\* forwarded.
C13_GatewayRejects ==
    [][GatewayAnswered =>
          /\ lastResp'.status = 200 =>
                 \E s \in Forwardable(sessions, lastResp'.sessionId, now) :
                     lastResp'.userId = s.userId
          /\ lastResp'.sessionId = "" =>
                 lastResp'.status = 401 /\ lastResp'.kind = "auth_required"
          /\ Forwardable(sessions, lastResp'.sessionId, now) = {} =>
                 /\ lastResp'.status # 200
                 /\ lastResp'.kind # "server_error" =>
                        lastResp'.status = 401 /\ lastResp'.kind = "auth_required"
      ]_vars

\* a protected request carrying the id of a deactivated row was answered
\* with the authentication-required response
C13_Witness ==
    /\ lastResp.route = "protected" /\ lastResp.status = 401
    /\ lastResp.kind = "auth_required"
    /\ \E s \in sessions : s.sessionId = lastResp.sessionId /\ ~s.isActive

\* C14 as stated: a protected request whose session id has an active row
\* that is not past its expires_at, and whose lookup completes, is forwarded
\* with the user id of that row.
C14_GatewayAccepts ==
    [][\A s \in sessions :
          (/\ GatewayAnswered
           /\ lastResp'.kind # "server_error"
           /\ lastResp'.sessionId = s.sessionId
           /\ s.isActive
           /\ s.expiresAt = NULL \/ s.expiresAt > now)
          => /\ lastResp'.status = 200
             /\ lastResp'.userId = s.userId]_vars

---------------------------------------------------------------------------
(* Claims about the validation at the endpoints, under SpecBoundary. *)

\* the response says that a statement ran with the session id it echoes
StatementRan ==
    \/ lastResp.kind \in {"ok", "warning", "not_found"}
    \/ lastResp.stage = "sessions"

\* C15 as stated: a session id that is not sess_ followed by a token reaches
\* no statement: every response that reports on a statement, and every
\* stored row, carries a session id of that format.
C15_SessionIdGate ==
    /\ StatementRan => SessRegex(Spell[lastResp.sessionId])
    /\ \A s \in sessions : SessRegex(Spell[s.sessionId])

\* C16 as stated: every persisted did, handle, session id and device id is
\* what its sanitizer returns for it: the sanitizer accepts it and leaves it
\* as it is.
C16_PersistedIsSanitized ==
    /\ \A u \in users :
           /\ sanitizeDid(Spell[u.did]) = Cleaned(Spell[u.did])
           /\ sanitizeHandle(Spell[u.handle]) = Cleaned(Spell[u.handle])
    /\ \A s \in sessions :
           /\ sanitizeSessionId(Spell[s.sessionId]) = Cleaned(Spell[s.sessionId])
           /\ sanitizeDeviceId(Spell[s.deviceId]) = Cleaned(Spell[s.deviceId])

\* C17 as stated: a request answered at the content type test, at the
\* parsing of its body or at the schema is answered with a validation error
\* (400), never with a 5xx.
C17_MalformedIsValidationError ==
    (\/ lastResp.stage = "parse"
     \/ lastResp.stage = "gate" /\ lastResp.kind # "rate_limit")
    => lastResp.status = 400 /\ lastResp.kind = "validation"

\* a sync body that the rate-limited handler's validation turns down
FailsSyncValidation(body) ==
    \/ body.shape # "ok"
    \/ ~syncSchema(body)
    \/ ~startsWith(Spell[body.sessionId], <<"s", "e", "s", "s", "_">>)

\* an activity request that the handler's validation turns down
FailsActivityValidation(q) ==
    \/ ~q.contentTypeOk
    \/ q.body.shape # "ok"
    \/ ~activitySchema(q.body)

\* C18: a sync, activity or deactivate request that fails validation (wrong
\* content type, body that does not parse, field that the schema or the
\* prefix test turns down) leaves every users row and every user_sessions
\* row as it is, and a sync request turned down at its body ends there.
C18_ValidationFailureWritesNothing ==
    [][/\ \A ip \in Clients : SyncBegin(ip, FALSE, MaxSyncs) =>
              UNCHANGED <<users, sessions>>
       /\ \A req \in Requests("body"), body \in BoundarySyncBodies, dbOk \in BOOLEAN :
              (FailsSyncValidation(body) /\ SyncUpsertUser(req, body, dbOk)) =>
                  /\ UNCHANGED <<users, sessions>>
                  /\ BagCardinality(inflight') = BagCardinality(inflight) - 1
       /\ \A q \in BoundarySessionRequests :
              /\ (/\ FailsActivityValidation(q)
                  /\ Activity(q.contentTypeOk, q.body, q.lastActiveAt, q.dbOk))
                 => UNCHANGED <<users, sessions>>
              /\ (q.body.shape # "ok" /\ PlainActivity(q.body, q.lastActiveAt, q.dbOk))
                 => UNCHANGED <<users, sessions>>
              /\ (q.body.shape # "ok" /\ Deactivate(q.body, q.dbOk))
                 => UNCHANGED <<users, sessions>>
      ]_vars

\* a request was turned down by the validation while rows were stored
C18_Witness ==
    /\ lastResp.stage = "parse" /\ lastResp.status = 400
    /\ lastResp.route = "sync"
    /\ users # {} /\ sessions # {}

---------------------------------------------------------------------------
(* Claims about the callback and the client's auth state, under SpecClient. *)

\* C12 as stated: a completed callback for which the provider returned the
\* session of ProviderSub and echoed no state, whose sync request reached a
\* server that did not throttle it and whose store took every statement,
\* returned an EnhancedSession with that sub, the session id it minted and
\* the device id of the singleton, and an Identity with that did and a
\* SessionRecord of that session id referencing it are persisted, whatever
\* the profile request gave.
C12_SignInPersists ==
    (/\ client.lastCallback.init = "session"
     /\ client.lastCallback.state = "none"
     /\ client.lastCallback.fetched
     /\ client.lastCallback.dbOk
     /\ client.lastCallback.status # 429)
    => /\ client.returned.kind = "session"
       /\ client.returned.sub = ProviderSub
       /\ client.returned.sessionId = client.lastCallback.minted
       /\ SessRegex(Spell[client.returned.sessionId])
       /\ client.returned.deviceId = client.deviceId
       /\ \E u \in users :
              /\ u.did = ProviderSub
              /\ \E t \in sessions :
                     t.sessionId = client.returned.sessionId /\ t.userId = u.id

\* C19: a completed callback whose init() yielded a session returned an
\* EnhancedSession of that session's subject, with the session id and the
\* device id of the singleton, whatever the profile request, the pds of the
\* session and the sync request came to.
C19_CallbackAlwaysAuthenticates ==
    client.lastCallback.init = "session"
    => /\ client.returned.kind = "session"
       /\ client.returned.sub = ProviderSub
       /\ client.returned.deviceId = client.deviceId
       /\ client.currentDid = ProviderSub

\* a callback returned its session after the profile request failed, no pds
\* was found and the sync request was throttled
C19_Witness ==
    /\ client.lastCallback.init = "session"
    /\ client.lastCallback.profile = "failed"
    /\ client.lastCallback.status = 429
    /\ client.returned.kind = "session"
    /\ client.returned.pds = NULL
    /\ users = {}

\* C20 as stated: once the session query holds the session of a provider
\* session and the user query has answered, the hook reports the user as
\* authenticated, also when no sync persisted an Identity.
C20_SyncFailureKeepsAuthenticated ==
    (/\ client.session.kind = "session"
     /\ client.run.op = "none"
     /\ ~client.userStale
     /\ client.user # "unset")
    => isAuthenticated(client)

---------------------------------------------------------------------------
(* Claims about activity updates and deactivation. *)

\* the rows of a session id
RowsOf(ss, sessionId) == {s \in ss : s.sessionId = sessionId}

\* C28: an activity request that passes its handler's validation, reaches the
\* store and names a session id without a row is answered 200 with the
\* not-found warning, and leaves every row as it is: no row is created.
C28_ActivityOnUnknownSession ==
    [][\A q \in BoundarySessionRequests :
          (/\ q.dbOk /\ q.body.shape = "ok"
           /\ RowsOf(sessions, q.body.sessionId) = {})
          => /\ (/\ q.contentTypeOk /\ activitySchema(q.body)
                 /\ Activity(q.contentTypeOk, q.body, q.lastActiveAt, q.dbOk))
                => /\ lastResp'.status = 200 /\ lastResp'.kind = "warning"
                   /\ UNCHANGED <<users, sessions>>
             /\ PlainActivity(q.body, q.lastActiveAt, q.dbOk)
                => /\ lastResp'.status = 200 /\ lastResp'.kind = "warning"
                   /\ UNCHANGED <<users, sessions>>]_vars

\* an activity request for sess_1 was answered with the warning while a row
\* of another session id was stored
C28_Witness ==
    /\ lastResp.route = "activity" /\ lastResp.status = 200
    /\ lastResp.kind = "warning" /\ lastResp.sessionId = "sess_1"
    /\ RowsOf(sessions, "sess_1") = {}
    /\ sessions # {}

\* C29 as stated: in no step does the last_active_at of a stored row
\* decrease.
C29_ActivityMonotonic ==
    [][\A s \in sessions : \A t \in sessions' :
          t.sessionId = s.sessionId => t.lastActiveAt >= s.lastActiveAt]_vars

---------------------------------------------------------------------------
(* Claims about the state parameter (under SpecLifecycle) and the          *)
(* provider's answer (under SpecClient).                                   *)

\* the values found in the texts the provider echoes
CarriedValues ==
    UNION {{text[i][2] : i \in DOMAIN text} : text \in UnreadableStates}

\* C21: a completed callback whose init() yielded a session and whose state
\* JSON.parse threw on, or held no sessionId, returned an EnhancedSession;
\* its session id is the one minted in that callback, has the sess_ form,
\* differs from the id the singleton held before and from every value
\* carried in a state, and is the session id of the sync request.
C21_UnparsableStateMintsFresh ==
    (/\ client.lastCallback.init = "session"
     /\ client.lastCallback.state \in {"garbled", "noid"})
    => /\ client.returned.kind = "session"
       /\ client.returned.sessionId = client.lastCallback.minted
       /\ SessRegex(Spell[client.returned.sessionId])
       /\ client.returned.sessionId # client.lastCallback.before
       /\ client.returned.sessionId \notin CarriedValues
       /\ client.lastCallback.synced = client.returned.sessionId

\* after a signIn that minted sess_2, a callback whose state JSON.parse
\* threw on stored its session under the id sess_3 minted in it
C21_Witness ==
    /\ client.lastCallback.init = "session"
    /\ client.lastCallback.state = "garbled"
    /\ client.lastCallback.status = 200
    /\ client.signedIn = "sess_2"
    /\ client.returned.kind = "session"
    /\ client.returned.sessionId = "sess_3"
    /\ RowsOf(sessions, "sess_3") # {}

\* C23: a handleCallback whose init() returns no session or throws returns
\* null, issues no request (the operation is over and the server is as it
\* was) and leaves the session query alone, so a hook that reported no
\* authenticated user still reports none; a restoreSession whose restore()
\* returns no session or throws gives the session query null, issues no
\* request, and the hook reports no authenticated user.
C23_NoProviderSessionStaysAnonymous ==
    [][\A result \in ProviderResults \ {"session"} :
          /\ \A text \in EchoedStates :
                 CallbackInit(result, text)
                 => /\ client'.returned = NoSession
                    /\ client'.run = Idle
                    /\ client'.session = client.session
                    /\ client'.currentDid = client.currentDid
                    /\ client'.sessionId = client.sessionId
                    /\ ~isAuthenticated(client) => ~isAuthenticated(client')
                    /\ UNCHANGED <<store, serverVars>>
          /\ RestoreInit(result)
             => /\ client'.session = NoSession
                /\ client'.run = Idle
                /\ ~isAuthenticated(client')
                /\ UNCHANGED <<store, serverVars>>]_vars

\* after a callback that stored its session, the restore of the remembered
\* subject found no session: the session query holds null
C23_Witness ==
    /\ client.currentDid = ProviderSub
    /\ client.ops = 2
    /\ client.run = Idle
    /\ ~client.sessionStale
    /\ client.session = NoSession
    /\ ~isAuthenticated(client)
    /\ sessions # {}

---------------------------------------------------------------------------
(* Claims about the life of a browser installation, under SpecLifecycle.   *)

\* the ids generateSessionId returned in its first n calls
MintedBefore(n) == {generateSessionId(i) : i \in 0..n - 1}

\* C22: every signIn sets the singleton's session id to one that no earlier
\* call minted and hands the provider a state text whose sessionId, read
\* back as handleCallback reads it, is that id; and a completed callback
\* that was given the text of the last signIn unmodified returned an
\* EnhancedSession with the id that signIn minted, and its sync request
\* carried that id, also when a page was loaded in between.
C22_StateRoundTrip ==
    [][/\ \A ident \in {"alice.test"} :
             SignIn(ident)
             => /\ client'.sessionId = generateSessionId(client.minted)
                /\ client'.sessionId \notin MintedBefore(client.minted)
                /\ parseState(client'.pending) = AuthState(client'.sessionId)
       /\ (/\ client'.lastCallback.init = "session"
           /\ client'.lastCallback.signIn # "")
          => /\ client'.returned.kind = "session"
             /\ client'.returned.sessionId = client'.lastCallback.signIn
             /\ client'.lastCallback.synced = client'.lastCallback.signIn]_vars

\* a callback in a page loaded after the signIn, whose singleton held
\* sess_3, stored its session under the id sess_2 of the signIn
C22_Witness ==
    /\ client.lastCallback.init = "session"
    /\ client.lastCallback.signIn = "sess_2"
    /\ client.lastCallback.before = "sess_3"
    /\ client.loads >= 1
    /\ client.returned.sessionId = "sess_2"
    /\ RowsOf(sessions, "sess_2") # {}

\* C24: after every signOut, whether revoke() returned or threw and whether
\* the deactivate request got no response, 200, 404 or 500, localStorage
\* holds no current did, the hook holds none, and the hook reports no
\* authenticated user.
C24_SignOutForgetsLocally ==
    [][\A revoked \in BOOLEAN, fetched \in BOOLEAN, dbOk \in BOOLEAN :
          SignOut(revoked, fetched, dbOk)
          => /\ getItem(client'.storage, DidKey) = ""
             /\ client'.currentDid = ""
             /\ ~isAuthenticated(client')]_vars

\* a signOut of the remembered subject whose revoke() threw left no current
\* did in localStorage
C24_Witness ==
    /\ client.lastSignOut.did = ProviderSub
    /\ ~client.lastSignOut.revoked
    /\ getItem(client.storage, DidKey) = ""
    /\ client.currentDid = ""
    /\ sessions # {}

\* C25 as stated: in every signOut the deactivate request for the session
\* id held is issued and the current did is removed from localStorage, also
\* when revoke() throws.
C25_SignOutStepsIndependent ==
    [][\A revoked \in BOOLEAN, fetched \in BOOLEAN, dbOk \in BOOLEAN :
          SignOut(revoked, fetched, dbOk)
          => /\ client'.lastSignOut.requested
             /\ client'.lastSignOut.before = client.sessionId
             /\ getItem(client'.storage, DidKey) = ""]_vars

\* C26 as stated: after every signIn and after every signOut the singleton
\* holds a session id that no earlier call minted, different from the one
\* it held before.
C26_SessionIdRotation ==
    [][/\ \A ident \in {"alice.test"} :
             SignIn(ident)
             => /\ client'.sessionId # client.sessionId
                /\ client'.sessionId \notin MintedBefore(client.minted)
       /\ \A revoked \in BOOLEAN, fetched \in BOOLEAN, dbOk \in BOOLEAN :
             SignOut(revoked, fetched, dbOk)
             => /\ client'.sessionId # client.sessionId
                /\ client'.sessionId \notin MintedBefore(client.minted)]_vars

\* C27: the singleton of every page of the browser holds the device id the
\* first one generated, localStorage holds that id, and no other device id
\* is ever generated, whatever signIn, callback, restore, signOut and page
\* loads happened.
C27_DeviceIdStable ==
    /\ client.deviceId = generateDeviceId(0)
    /\ getItem(client.storage, DeviceKey) = client.deviceId
    /\ client.mintedDev = 1

\* the second page loaded after the first, after a signIn, a stored session
\* and a signOut, holds dev_1
C27_Witness ==
    /\ client.loads = 2
    /\ client.signedIn # ""
    /\ client.lastSignOut.did = ProviderSub
    /\ sessions # {}
    /\ client.deviceId = "dev_1"

---------------------------------------------------------------------------
(* Further claims about RateLimiter, under SpecLimiter. *)

\* C39: a call to check that is denied found an entry for the key and left
\* it as it was: the same count, the same resetTime; it returned that
\* resetTime, which the call did not move.
C39_DeniedLeavesEntry ==
    (lastCheck.called /\ ~lastCheck.allowed)
    => /\ lastCheck.hadEntry
       /\ lastCheck.after = lastCheck.before
       /\ lastCheck.resetTime = lastCheck.before.resetTime
       /\ Has(store, lastCheck.identifier)
          => store[lastCheck.identifier] = lastCheck.before

\* the second denied call in a window with a positive limit, made after the
\* window was opened
C39_Witness ==
    /\ lastCheck.called /\ ~lastCheck.allowed
    /\ lastCheck.limit > 0
    /\ lastCheck.at > 0
    /\ Has(win, lastCheck.identifier)
    /\ win[lastCheck.identifier].calls - win[lastCheck.identifier].admitted >= 2
    /\ store[lastCheck.identifier].resetTime = win[lastCheck.identifier].end

\* the map of a limiter that made the same calls and never ran its sweep
Unswept(w) == [k \in DOMAIN w |-> RateLimitEntry(w[k].admitted, w[k].end)]

\* C34: every call to check returns what the same call returns on the map
\* of a limiter that made the same calls at the same times and never swept,
\* and that map goes on as check leaves it; the sweep deletes only entries
\* whose resetTime has passed and leaves the others as they are.
C34_SweepIsAdvisory ==
    [][/\ \A k \in Keys, limit \in Limits, windowMs \in Windows :
             CheckCall(k, limit, windowMs)
             => LET u == check(Unswept(win), now, k, limit, windowMs)
                IN /\ lastCheck'.allowed = u.allowed
                   /\ lastCheck'.remaining = u.remaining
                   /\ lastCheck'.resetTime = u.resetTime
                   /\ Unswept(win') = u.store
       /\ Sweep
          => /\ \A k \in DOMAIN store \ DOMAIN store' : now > store[k].resetTime
             /\ \A k \in DOMAIN store' : Has(store, k) /\ store'[k] = store[k]]_vars

\* a call to check for a key whose entry the sweep had deleted
C34_Witness ==
    /\ lastCheck.called
    /\ lastCheck.swept
    /\ lastCheck.allowed

---------------------------------------------------------------------------
(* Claims about the sync endpoint as the browser reaches it, under         *)
(* SpecClient.                                                             *)

\* C40 as stated: every sync request that reaches the server is counted in
\* the window of its client identifier (the limiter's map is left as check
\* leaves it), and a request that check does not admit writes no row.
C40_QuotaBeforeValidation ==
    [][\A variant \in {"plain", "limited"}, dbOk \in StatementOutcomes :
          SyncToDatabase(variant, TRUE, dbOk)
          => LET rl == applyRateLimit(store, now, "ip1", RATE_LIMITS.AUTH_SYNC)
             IN /\ store' = rl.store
                /\ ~rl.allowed => UNCHANGED <<users, sessions>>]_vars

---------------------------------------------------------------------------
(* Further claims about the two tables, under Spec. *)

\* C38 as stated: when the last response is the success of a sync request
\* with did D and session id S, the row of S in user_sessions references the
\* users row whose did is D.
C38_SuccessBindsSession ==
    (lastResp.route = "sync" /\ lastResp.status = 200)
    => \E s \in sessions :
           /\ s.sessionId = lastResp.sessionId
           /\ \E u \in users : u.id = s.userId /\ u.did = lastResp.did

---------------------------------------------------------------------------
(* Further claims about user_sessions, under SpecBoundary. *)

\* C37: in every step, a row of user_sessions whose is_active is false is
\* still there afterwards and its is_active is still false, whichever
\* handler took the step: a sync with the same session id, an activity
\* update, a deactivate.
C37_DeactivationIsPermanent ==
    [][\A s \in sessions :
          ~s.isActive
          => /\ RowsOf(sessions', s.sessionId) # {}
             /\ \A t \in RowsOf(sessions', s.sessionId) : ~t.isActive]_vars

\* a sync request for the session id of a deactivated row was answered with
\* success, and the row is inactive
C37_Witness ==
    /\ lastResp.route = "sync" /\ lastResp.status = 200
    /\ \E s \in sessions : s.sessionId = lastResp.sessionId /\ ~s.isActive

---------------------------------------------------------------------------
(* Claims about the sanitizers, under SpecSanitize. *)

\* C33 as stated: whenever a sanitizer returned a value for an input, the
\* same sanitizer called on that value returns that value.
C33_SanitizerIdempotent ==
    lastResp.again => lastResp.twice = lastResp.once

---------------------------------------------------------------------------
(* Claims about restoreSession, under SpecLifecycle. *)

\* C31: a restoreSession that has built its session has sent nothing before
\* its sync request; while it waits to send the activity update it has sent
\* the sync request and nothing else, and the session query does not hold
\* its session yet; and once the session query holds the session of a
\* finished restore, the requests sent were the sync request and then the
\* activity update, both with the session id of that session.
C31_RestoreOrdering ==
    /\ (client.run.op = "restore" /\ client.run.pc \in {"profile", "sync"})
       => client.issued = << >>
    /\ (client.run.op = "restore" /\ client.run.pc = "activity")
       => /\ client.issued = <<Issued("sync", client.run.session.sessionId)>>
          /\ client.sessionStale
    /\ (/\ client.run.op = "none"
        /\ client.session.kind = "session"
        /\ ~client.sessionStale)
       => client.issued = <<Issued("sync", client.session.sessionId),
                            Issued("activity", client.session.sessionId)>>

\* in a page loaded after the callback, a restore returned its session after
\* the sync request stored the row of its session id
C31_Witness ==
    /\ client.run.op = "none"
    /\ client.loads >= 1
    /\ client.session.kind = "session"
    /\ ~client.sessionStale
    /\ Len(client.issued) = 2
    /\ RowsOf(sessions, client.session.sessionId) # {}

\* C32 as stated: when the activity update of a restore reaches a server
\* whose store takes every statement, a row of the client's session id
\* exists afterwards, also when the sync request before it had failed.
C32_ActivityTickReconciles ==
    [][(client.run.op = "restore" /\ UpdateActivity(TRUE, TRUE))
       => RowsOf(sessions', client'.session.sessionId) # {}]_vars

---------------------------------------------------------------------------
(* Claims about signOut after any history of the browser, under            *)
(* SpecLifecycle.                                                          *)

\* C35 as stated: after a sign-out whose revoke succeeded and whose
\* deactivate request was served by a healthy store, the row of the session
\* id this client last synchronized is inactive, whatever sign-in attempts,
\* callbacks, restores and page loads came before.
C35_SignOutDeactivatesSynced ==
    [][(client.synced # "" /\ SignOut(TRUE, TRUE, TRUE))
       => /\ RowsOf(sessions', client.synced) # {}
          /\ \A s \in RowsOf(sessions', client.synced) : ~s.isActive]_vars

---------------------------------------------------------------------------
(* Claims about a callback and a restore that overlap, under SpecRace.     *)

\* the session ids of the requests that the finished callback and the
\* finished restore sent, and of the sessions they returned
CarriedIds ==
    {client.lastCallback.synced}
        \cup {client.issued[i].sessionId : i \in 1..Len(client.issued)}
        \cup {r.sessionId : r \in {r \in {client.returned, client.session} :
                                      r.kind = "session"}}

\* C36 as stated: once a handleCallback and a restoreSession that overlapped
\* on one singleton have both finished with a session, every request they
\* sent and every session they returned carries the session id the
\* singleton holds.
C36_OneSessionIdUnderInterleaving ==
    (/\ client.overlap
     /\ client.run.op = "none" /\ client.bg.op = "none"
     /\ client.lastCallback.init = "session"
     /\ client.session.kind = "session" /\ Len(client.issued) = 2)
    => CarriedIds = {client.sessionId}

====
